---- MODULE Spec2Model ----
(***************************************************************************)
(* Model of the semantic query translation engine of project-concord       *)
(* (apps/mcp-server/src/mcp-server/tools/build_query_from_description),    *)
(* of the tool handler registered for it, and of the SchedulerService.     *)
(*                                                                         *)
(* JavaScript strings are modelled as sequences of one-character strings,  *)
(* so that regular-expression matching, trimming, case folding, substring  *)
(* tests and concatenation are computed character by character.            *)
(***************************************************************************)
EXTENDS Integers, Sequences, FiniteSets, TLC

(***************************************************************************)
(* String primitives (methods of String.prototype)                                *)
(***************************************************************************)
UpperChars == <<"A","B","C","D","E","F","G","H","I","J","K","L","M","N","O","P","Q","R","S","T","U","V","W","X","Y","Z">>  \* "ABCDEFGHIJKLMNOPQRSTUVWXYZ"
LowerChars == <<"a","b","c","d","e","f","g","h","i","j","k","l","m","n","o","p","q","r","s","t","u","v","w","x","y","z">>  \* "abcdefghijklmnopqrstuvwxyz"
DigitChars == <<"0","1","2","3","4","5","6","7","8","9">>  \* "0123456789"

Range(seq) == {seq[i] : i \in 1..Len(seq)}

UpperSet == Range(UpperChars)
DigitSet == Range(DigitChars)
\* \s of a regular expression / the characters String.prototype.trim strips
WhiteSpace == {" ", "\t", "\n", "\r"}
\* characters the regular-expression dot does not match
LineTerminators == {"\n", "\r"}

LowerOf == [c \in UpperSet |-> LowerChars[CHOOSE i \in 1..26 : UpperChars[i] = c]]

LowerChar(c) == IF c \in UpperSet THEN LowerOf[c] ELSE c

\* String.prototype.toLowerCase
toLowerCase(s) == [i \in 1..Len(s) |-> LowerChar(s[i])]

SetMin(S) == CHOOSE x \in S : \A y \in S : x <= y
SetMax(S) == CHOOSE x \in S : \A y \in S : y <= x

\* String.prototype.trim
trim(s) ==
  LET keep == {i \in 1..Len(s) : s[i] \notin WhiteSpace}
  IN  IF keep = {} THEN <<>> ELSE SubSeq(s, SetMin(keep), SetMax(keep))

\* the literal lit occurs in s at index p (1-based)
LitAt(s, p, lit) ==
  /\ p >= 1
  /\ p + Len(lit) - 1 <= Len(s)
  /\ \A k \in 1..Len(lit) : s[p + k - 1] = lit[k]

\* String.prototype.includes
includes(s, sub) == \E p \in 1..(Len(s) - Len(sub) + 1) : LitAt(s, p, sub)

\* String.prototype.endsWith
endsWith(s, suffix) == LitAt(s, Len(s) - Len(suffix) + 1, suffix)

\* Array.prototype.join over strings
RECURSIVE join(_, _)
join(parts, sep) ==
  IF Len(parts) = 0 THEN <<>>
  ELSE IF Len(parts) = 1 THEN parts[1]
  ELSE parts[1] \o sep \o join(Tail(parts), sep)

\* parseInt(digits, 10) for a non-empty run of decimal digits
DigitValue(c) == (CHOOSE i \in 1..10 : DigitChars[i] = c) - 1
RECURSIVE parseInt(_)
parseInt(ds) ==
  IF Len(ds) = 0 THEN 0
  ELSE parseInt(SubSeq(ds, 1, Len(ds) - 1)) * 10 + DigitValue(ds[Len(ds)])

\* no character of s[a..b] is a line terminator (every one is matched by `.`)
DotRun(s, a, b) == \A k \in a..b : s[k] \notin LineTerminators

\* index of the last digit of the maximal digit run starting at p (p - 1 if none)
DigitRunEnd(s, p) ==
  LET stops == {k \in p..(Len(s) + 1) : k = Len(s) + 1 \/ s[k] \notin DigitSet}
  IN  SetMin(stops) - 1

\* s[p..] is  \d+ \?? $  : returns the index of the last digit, or 0
DigitsOptQEnd(s, p) ==
  LET e == DigitRunEnd(s, p)
  IN  IF e >= p /\ (e = Len(s) \/ (e + 1 = Len(s) /\ s[e + 1] = "?")) THEN e ELSE 0

(***************************************************************************)
(* parseDescription: the ordered sentence patterns                         *)
(***************************************************************************)
NULL == [kind |-> "null"]

UnsupportedMessage ==
  <<"T","h","a","t"," ","r","e","q","u","e","s","t"," ","i","s"," ","n","o","t"," ","s","u","p","p","o","r","t","e","d"," ","b","y"," ","t","h","e"," ","q","u","e","r","y"," ","b","u","i","l","d","e","r"," ","y","e","t","."," ","T","r","y"," ","r","e","p","h","r","a","s","i","n","g"," ","o","r"," ","p","i","c","k"," ","f","r","o","m"," ","t","h","e"," ","s","u","p","p","o","r","t","e","d"," ","s","e","t",".">>  \* "That request is not supported by the query builder yet. Try rephrasing or pick from the supported set."

\* throw new McpError(code, message, {})
Throw(code, message) ==
  [kind |-> "error", code |-> code, message |-> message, sql_query |-> <<>>, params |-> <<>>]

Intent(target, columns, filters) ==
  [kind |-> "intent", target |-> target, columns |-> columns, filters |-> filters]

Filter(column, value) == [column |-> column, operator |-> <<"=">>, value |-> value]

ShowMeThe == <<"s","h","o","w"," ","m","e"," ","t","h","e"," ">>  \* "show me the "
ForThe == <<" ","f","o","r"," ","t","h","e"," ">>  \* " for the "
WithId == <<" ","w","i","t","h"," ","i","d"," ">>  \* " with id "

\* /show me the (.*?) for the (.*?) with id (\d+)/i
\* the match JavaScript's backtracking finds: leftmost start, then the shortest
\* first group, then the shortest second group, then the longest digit run
Pattern1(description) ==
  LET s == toLowerCase(description)
      n == Len(s)
      Js(i) == {j \in (i + Len(ForThe))..n :
                  /\ LitAt(s, j, WithId)
                  /\ j + Len(WithId) <= n
                  /\ s[j + Len(WithId)] \in DigitSet
                  /\ DotRun(s, i + Len(ForThe), j - 1)}
      Is(p) == {i \in (p + Len(ShowMeThe))..n :
                  /\ LitAt(s, i, ForThe)
                  /\ DotRun(s, p + Len(ShowMeThe), i - 1)
                  /\ Js(i) # {}}
      Ps == {p \in 1..n : LitAt(s, p, ShowMeThe) /\ Is(p) # {}}
  IN  IF Ps = {} THEN NULL
      ELSE LET p == SetMin(Ps)
               i == SetMin(Is(p))
               j == SetMin(Js(i))
               d == j + Len(WithId)
           IN  Intent(trim(SubSeq(description, i + Len(ForThe), j - 1)),
                      << trim(SubSeq(description, p + Len(ShowMeThe), i - 1)) >>,
                      << Filter(<<"i","d">>, SubSeq(description, d, DigitRunEnd(s, d))) >>)

WhichSalesOrdersAre == <<"w","h","i","c","h"," ","s","a","l","e","s"," ","o","r","d","e","r","s"," ","a","r","e"," ">>  \* "which sales orders are "

\* a rule that takes the entity from the sentence: /which (.*?) are (.*?)\??$/i
Pattern2AnyEntity(description) ==
  LET s == toLowerCase(description)
      n == Len(s)
      which == <<"w","h","i","c","h"," ">>  \* "which "
      are == <<" ","a","r","e"," ">>  \* " are "
      Is(p) == {i \in (p + Len(which))..n :
                  /\ LitAt(s, i, are)
                  /\ DotRun(s, p + Len(which), i - 1)
                  /\ DotRun(s, i + Len(are), n)}
      Ps == {p \in 1..n : LitAt(s, p, which) /\ Is(p) # {}}
  IN  IF Ps = {} THEN NULL
      ELSE LET p == SetMin(Ps)
               i == SetMin(Is(p))
               e == IF n >= i + Len(are) /\ s[n] = "?" THEN n - 1 ELSE n
           IN  Intent(trim(SubSeq(description, p + Len(which), i - 1)),
                      << <<"i","d">> >>,
                      << Filter(<<"s","t","a","t","u","s">>, trim(SubSeq(description, i + Len(are), e))) >>)  \* "status"

\* /which sales orders are (.*?)\??$/i
Pattern2(description) ==
  LET s == toLowerCase(description)
      n == Len(s)
      \* lazy group: one trailing "?" is left to \?? when there is one
      GroupEnd(p) == IF n >= p + Len(WhichSalesOrdersAre) /\ s[n] = "?" THEN n - 1 ELSE n
      Ps == {p \in 1..n : /\ LitAt(s, p, WhichSalesOrdersAre)
                          /\ DotRun(s, p + Len(WhichSalesOrdersAre), GroupEnd(p))}
  IN  IF Ps = {} THEN NULL
      ELSE LET p == SetMin(Ps)
           IN  Intent(<<"s","a","l","e","s"," ","o","r","d","e","r","s">>,  \* "sales orders"
                      << <<"i","d">> >>,
                      << Filter(<<"s","t","a","t","u","s">>,  \* "status"
                                trim(SubSeq(description, p + Len(WhichSalesOrdersAre), GroupEnd(p)))) >>)

ListAll == <<"l","i","s","t"," ","a","l","l"," ">>  \* "list all "
InThe == <<" ","i","n"," ","t","h","e"," ">>  \* " in the "
Quotes == {"'", "\""}

\* mutation: the target taken from the entity term, matches[1]
Pattern3EntityTarget(description) ==
  LET s == toLowerCase(description)
      n == Len(s)
      Js(i) == {j \in (i + Len(InThe) + 1)..n :
                  /\ s[j] \in Quotes
                  /\ DotRun(s, i + Len(InThe) + 1, j - 1)}
      Is(p) == {i \in (p + Len(ListAll))..n :
                  /\ LitAt(s, i, InThe)
                  /\ i + Len(InThe) <= n
                  /\ s[i + Len(InThe)] \in Quotes
                  /\ DotRun(s, p + Len(ListAll), i - 1)
                  /\ Js(i) # {}}
      Ps == {p \in 1..n : LitAt(s, p, ListAll) /\ Is(p) # {}}
  IN  IF Ps = {} THEN NULL
      ELSE LET p == SetMin(Ps)
               i == SetMin(Is(p))
               j == SetMin(Js(i))
           IN  Intent(trim(SubSeq(description, p + Len(ListAll), i - 1)),
                      << <<"*">> >>,
                      << >>)

\* /list all (.*?) in the (?:'|")(.*?)(?:'|")/i
Pattern3(description) ==
  LET s == toLowerCase(description)
      n == Len(s)
      Js(i) == {j \in (i + Len(InThe) + 1)..n :
                  /\ s[j] \in Quotes
                  /\ DotRun(s, i + Len(InThe) + 1, j - 1)}
      Is(p) == {i \in (p + Len(ListAll))..n :
                  /\ LitAt(s, i, InThe)
                  /\ i + Len(InThe) <= n
                  /\ s[i + Len(InThe)] \in Quotes
                  /\ DotRun(s, p + Len(ListAll), i - 1)
                  /\ Js(i) # {}}
      Ps == {p \in 1..n : LitAt(s, p, ListAll) /\ Is(p) # {}}
  IN  IF Ps = {} THEN NULL
      ELSE LET p == SetMin(Ps)
               i == SetMin(Is(p))
               j == SetMin(Js(i))
           IN  Intent(trim(SubSeq(description, i + Len(InThe) + 1, j - 1)),
                      << <<"*">> >>,
                      << >>)

WhatIsTheNameOfThe == <<"w","h","a","t"," ","i","s"," ","t","h","e"," ","n","a","m","e"," ","o","f"," ","t","h","e"," ">>  \* "what is the name of the "

\* mutation: every column selected instead of the logical name field
Pattern4Wildcard(description) ==
  LET s == toLowerCase(description)
      n == Len(s)
      Is(p) == {i \in (p + Len(WhatIsTheNameOfThe))..n :
                  /\ LitAt(s, i, WithId)
                  /\ DigitsOptQEnd(s, i + Len(WithId)) # 0
                  /\ DotRun(s, p + Len(WhatIsTheNameOfThe), i - 1)}
      Ps == {p \in 1..n : LitAt(s, p, WhatIsTheNameOfThe) /\ Is(p) # {}}
  IN  IF Ps = {} THEN NULL
      ELSE LET p == SetMin(Ps)
               i == SetMin(Is(p))
               d == i + Len(WithId)
           IN  Intent(trim(SubSeq(description, p + Len(WhatIsTheNameOfThe), i - 1)),
                      << <<"*">> >>,
                      << Filter(<<"i","d">>, trim(SubSeq(description, d, DigitsOptQEnd(s, d)))) >>)

\* /what is the name of the (.*?) with id (\d+)\??$/i
Pattern4(description) ==
  LET s == toLowerCase(description)
      n == Len(s)
      Is(p) == {i \in (p + Len(WhatIsTheNameOfThe))..n :
                  /\ LitAt(s, i, WithId)
                  /\ DigitsOptQEnd(s, i + Len(WithId)) # 0
                  /\ DotRun(s, p + Len(WhatIsTheNameOfThe), i - 1)}
      Ps == {p \in 1..n : LitAt(s, p, WhatIsTheNameOfThe) /\ Is(p) # {}}
  IN  IF Ps = {} THEN NULL
      ELSE LET p == SetMin(Ps)
               i == SetMin(Is(p))
               d == i + Len(WithId)
           IN  Intent(trim(SubSeq(description, p + Len(WhatIsTheNameOfThe), i - 1)),
                      << <<"n","a","m","e">> >>,  \* "name"
                      << Filter(<<"i","d">>, trim(SubSeq(description, d, DigitsOptQEnd(s, d)))) >>)

QuantityQuestion == <<"w","h","a","t"," ","w","a","s"," ","t","h","e"," ","q","u","a","n","t","i","t","y"," ","o","f"," ","e","a","c","h"," ","p","r","o","d","u","c","t"," ","s","o","l","d"," ","i","n"," ","o","r","d","e","r"," ","n","u","m","b","e","r"," ">>  \* "what was the quantity of each product sold in order number "

\* /what was the quantity of each product sold in order number (\d+)\??$/i
Pattern5(description) ==
  LET s == toLowerCase(description)
      Ps == {p \in 1..Len(s) : /\ LitAt(s, p, QuantityQuestion)
                               /\ DigitsOptQEnd(s, p + Len(QuantityQuestion)) # 0}
  IN  IF Ps = {} THEN NULL ELSE Throw("UNSUPPORTED_OPERATION", UnsupportedMessage)

CustomerQuestion == <<"f","i","n","d"," ","t","h","e"," ","n","a","m","e"," ","o","f"," ","t","h","e"," ","c","u","s","t","o","m","e","r"," ","w","h","o"," ","p","l","a","c","e","d"," ","o","r","d","e","r"," ","n","u","m","b","e","r"," ">>  \* "find the name of the customer who placed order number "

\* mutation: the customer question answered as a single-table lookup
Pattern6Answered(description) ==
  LET s == toLowerCase(description)
      Ps == {p \in 1..Len(s) : /\ LitAt(s, p, CustomerQuestion)
                               /\ DigitsOptQEnd(s, p + Len(CustomerQuestion)) # 0}
  IN  IF Ps = {} THEN NULL
      ELSE LET d == SetMin(Ps) + Len(CustomerQuestion)
           IN  Intent(<<"c","u","s","t","o","m","e","r">>, << <<"n","a","m","e">> >>,  \* "customer" "name"
                      << Filter(<<"i","d">>, SubSeq(description, d, DigitsOptQEnd(s, d))) >>)

\* /find the name of the customer who placed order number (\d+)\??$/i
Pattern6(description) ==
  LET s == toLowerCase(description)
      Ps == {p \in 1..Len(s) : /\ LitAt(s, p, CustomerQuestion)
                               /\ DigitsOptQEnd(s, p + Len(CustomerQuestion)) # 0}
  IN  IF Ps = {} THEN NULL ELSE Throw("UNSUPPORTED_OPERATION", UnsupportedMessage)

\* supportedPatterns, in source order: the regex and its entities() callback
supportedPatterns(description) ==
  << Pattern1(description), Pattern2(description), Pattern3(description),
     Pattern4(description), Pattern5(description), Pattern6(description) >>

\* mutation: the loop keeps going and the last matching pattern decides
parseDescriptionLastMatch(description) ==
  LET results == supportedPatterns(description)
      hits == {k \in 1..Len(results) : results[k] # NULL}
  IN  IF hits = {} THEN NULL ELSE results[SetMax(hits)]

\* the for loop: the result of the first pattern that matches, else null
parseDescription(description) ==
  LET results == supportedPatterns(description)
      hits == {k \in 1..Len(results) : results[k] # NULL}
  IN  IF hits = {} THEN NULL ELSE results[SetMin(hits)]

(***************************************************************************)
(* The schema contract.  A JavaScript object is modelled as the sequence   *)
(* of its entries in for...in / Object.keys enumeration order.             *)
(***************************************************************************)
Column(name, businessName, businessRules) ==
  [name |-> name, businessName |-> businessName, businessRules |-> businessRules]

Table(name, businessName, columns) ==
  [name |-> name, businessName |-> businessName, columns |-> columns]

\* one entry of DataContract.abbreviations
Abbreviation(short, expansion) == [short |-> short, expansion |-> expansion]

(***************************************************************************)
(* Name resolver                                                           *)
(***************************************************************************)
\* mutation: the loop does not stop at the first hit, the last matching table wins
findTableLastMatch(contract, businessName) ==
  LET tables == contract.tables
      hits == {k \in 1..Len(tables) :
                 includes(toLowerCase(tables[k].businessName), toLowerCase(businessName))}
  IN  IF hits = {} THEN NULL
      ELSE [kind |-> "table", physicalName |-> tables[SetMax(hits)].name,
            table |-> tables[SetMax(hits)]]

findTableByBusinessName(contract, businessName) ==
  LET tables == contract.tables
      hits == {k \in 1..Len(tables) :
                 includes(toLowerCase(tables[k].businessName), toLowerCase(businessName))}
  IN  IF hits = {} THEN NULL
      ELSE [kind |-> "table", physicalName |-> tables[SetMin(hits)].name,
            table |-> tables[SetMin(hits)]]

ColumnInfo(column) == [kind |-> "column", physicalName |-> column.name, column |-> column]

\* mutation: no special case, id and status are looked up by business name
findColumnGenericOnly(table, businessName) ==
  LET lowerBusinessName == toLowerCase(businessName)
      columns == table.columns
      hits == {k \in 1..Len(columns) :
                 includes(toLowerCase(columns[k].businessName), lowerBusinessName)}
  IN  IF hits # {} THEN ColumnInfo(columns[SetMin(hits)]) ELSE NULL

\* mutation: the special cases return null when no physical name passes the test
findColumnSpecialOnly(table, businessName) ==
  LET lowerBusinessName == toLowerCase(businessName)
      columns == table.columns
      idHits == {k \in 1..Len(columns) :
                   endsWith(columns[k].name, <<"_","i","d">>) \/ columns[k].name = <<"i","d">>}  \* "_id" "id"
      statusHits == {k \in 1..Len(columns) :
                       endsWith(columns[k].name, <<"_","s","t","a","t">>) \/ endsWith(columns[k].name, <<"_","s","t","a","t","u","s">>)}  \* "_stat" "_status"
      hits == {k \in 1..Len(columns) :
                 includes(toLowerCase(columns[k].businessName), lowerBusinessName)}
  IN  IF lowerBusinessName = <<"i","d">>
        THEN IF idHits # {} THEN ColumnInfo(columns[SetMin(idHits)]) ELSE NULL
      ELSE IF lowerBusinessName = <<"s","t","a","t","u","s">>  \* "status"
        THEN IF statusHits # {} THEN ColumnInfo(columns[SetMin(statusHits)]) ELSE NULL
      ELSE IF hits # {} THEN ColumnInfo(columns[SetMin(hits)])
      ELSE NULL

findColumnByBusinessName(table, businessName) ==
  LET lowerBusinessName == toLowerCase(businessName)
      columns == table.columns
      idHits == {k \in 1..Len(columns) :
                   endsWith(columns[k].name, <<"_","i","d">>) \/ columns[k].name = <<"i","d">>}  \* "_id" "id"
      statusHits == {k \in 1..Len(columns) :
                       endsWith(columns[k].name, <<"_","s","t","a","t">>) \/ endsWith(columns[k].name, <<"_","s","t","a","t","u","s">>)}  \* "_stat" "_status"
      hits == {k \in 1..Len(columns) :
                 includes(toLowerCase(columns[k].businessName), lowerBusinessName)}
  IN  IF lowerBusinessName = <<"i","d">> /\ idHits # {} THEN ColumnInfo(columns[SetMin(idHits)])
      ELSE IF lowerBusinessName = <<"s","t","a","t","u","s">> /\ statusHits # {}  \* "status"
             THEN ColumnInfo(columns[SetMin(statusHits)])
      ELSE IF hits # {} THEN ColumnInfo(columns[SetMin(hits)])
      ELSE NULL

(***************************************************************************)
(* Value mapper                                                            *)
(***************************************************************************)
StringParam(s) == [type |-> "string", str |-> s, num |-> 0]
NumberParam(n) == [type |-> "number", str |-> <<>>, num |-> n]

\* one attempt of /(\d+):\s*'(.*?)'/ at index p of rule: the match, or NULL
RuleMatchAt(rule, p) ==
  LET n == Len(rule)
      e == DigitRunEnd(rule, p)
      q == SetMin({k \in (e + 2)..(n + 1) : k = n + 1 \/ rule[k] \notin WhiteSpace})
      closes == {r \in (q + 1)..n : rule[r] = "'"}
  IN  IF /\ e >= p
         /\ e + 1 <= n
         /\ rule[e + 1] = ":"
         /\ q <= n
         /\ rule[q] = "'"
         /\ closes # {}
         /\ DotRun(rule, q + 1, SetMin(closes) - 1)
        THEN [kind |-> "match", code |-> SubSeq(rule, p, e),
              label |-> SubSeq(rule, q + 1, SetMin(closes) - 1),
              lastIndex |-> SetMin(closes) + 1]
        ELSE NULL

\* the successive results of regex.exec(rule) for the global regex, from index from
RECURSIVE RuleExec(_, _)
RuleExec(rule, from) ==
  LET starts == {p \in from..Len(rule) : RuleMatchAt(rule, p) # NULL}
  IN  IF starts = {} THEN <<>>
      ELSE LET m == RuleMatchAt(rule, SetMin(starts))
           IN  <<m>> \o RuleExec(rule, m.lastIndex)

RECURSIVE AllRuleMatches(_)
AllRuleMatches(businessRules) ==
  IF Len(businessRules) = 0 THEN <<>>
  ELSE RuleExec(businessRules[1], 1) \o AllRuleMatches(Tail(businessRules))

\* mutation: the scan goes on after a hit and the last matching occurrence wins
findColumnValueLastMatch(column, value) ==
  LET lowerValue == toLowerCase(value)
      matches == AllRuleMatches(column.businessRules)
      hits == {k \in 1..Len(matches) : toLowerCase(matches[k].label) = lowerValue}
  IN  IF hits = {} THEN StringParam(value)
      ELSE NumberParam(parseInt(matches[SetMax(hits)].code))

\* mutation: the label compared with the value as written
findColumnValueCaseSensitive(column, value) ==
  LET matches == AllRuleMatches(column.businessRules)
      hits == {k \in 1..Len(matches) : matches[k].label = value}
  IN  IF hits = {} THEN StringParam(value)
      ELSE NumberParam(parseInt(matches[SetMin(hits)].code))

\* mutation: the captured code returned without parseInt
findColumnValueUnparsed(column, value) ==
  LET lowerValue == toLowerCase(value)
      matches == AllRuleMatches(column.businessRules)
      hits == {k \in 1..Len(matches) : toLowerCase(matches[k].label) = lowerValue}
  IN  IF hits = {} THEN StringParam(value)
      ELSE StringParam(matches[SetMin(hits)].code)

findColumnValueFromBusinessRule(column, value) ==
  LET lowerValue == toLowerCase(value)
      matches == AllRuleMatches(column.businessRules)
      hits == {k \in 1..Len(matches) : toLowerCase(matches[k].label) = lowerValue}
  IN  IF hits = {} THEN StringParam(value)
      ELSE NumberParam(parseInt(matches[SetMin(hits)].code))

(***************************************************************************)
(* Query assembler                                                         *)
(***************************************************************************)
Result(sql_query, params) ==
  [kind |-> "ok", code |-> "", message |-> <<>>, sql_query |-> sql_query, params |-> params]

\* mutation: an unresolved table reported as an unsupported request
TableNotFoundUnsupported(target) == Throw("UNSUPPORTED_OPERATION", UnsupportedMessage)

TableNotFound(target) ==
  Throw("INVALID_INPUT", <<"C","o","u","l","d"," ","n","o","t"," ","f","i","n","d"," ","a"," ","t","a","b","l","e"," ","m","a","t","c","h","i","n","g"," ","'">> \o target \o <<"'",".">>)  \* "Could not find a table matching '" "'."

\* mutation: the message leaves out the table that was searched
ColumnNotFoundTerse(colName, tableInfo) ==
  Throw("INVALID_INPUT", <<"C","o","u","l","d"," ","n","o","t"," ","f","i","n","d"," ","a"," ","c","o","l","u","m","n"," ","m","a","t","c","h","i","n","g"," ","'">> \o colName \o <<"'",".">>)  \* "Could not find a column matching '" "'."

ColumnNotFound(colName, tableInfo) ==
  Throw("INVALID_INPUT",
        <<"C","o","u","l","d"," ","n","o","t"," ","f","i","n","d"," ","a"," ","c","o","l","u","m","n"," ","m","a","t","c","h","i","n","g"," ","'">> \o colName \o <<"'"," ","i","n"," ","t","a","b","l","e"," ","'">>  \* "Could not find a column matching '" "' in table '"
          \o tableInfo.physicalName \o <<"'",".">>)

\* mutation: the requested business term used as the column identifier
SelectColumnUnresolved(tableInfo, colName) ==
  IF colName = <<"*">>
    THEN [kind |-> "select",
          text |-> join([k \in 1..Len(tableInfo.table.columns) |->
                           tableInfo.table.columns[k].name], <<","," ">>)]
    ELSE LET colInfo == findColumnByBusinessName(tableInfo.table, colName)
         IN  IF colInfo = NULL THEN NULL
             ELSE [kind |-> "select", text |-> colName]

\* mutation: the wildcard passed through to the statement
SelectColumnStar(tableInfo, colName) ==
  IF colName = <<"*">>
    THEN [kind |-> "select", text |-> <<"*">>]
    ELSE LET colInfo == findColumnByBusinessName(tableInfo.table, colName)
         IN  IF colInfo = NULL THEN NULL
             ELSE [kind |-> "select", text |-> colInfo.physicalName]

\* mutation: an unresolved column falls back to an empty name instead of throwing
SelectColumnSkipping(tableInfo, colName) ==
  IF colName = <<"*">>
    THEN [kind |-> "select",
          text |-> join([k \in 1..Len(tableInfo.table.columns) |->
                           tableInfo.table.columns[k].name], <<","," ">>)]
    ELSE LET colInfo == findColumnByBusinessName(tableInfo.table, colName)
         IN  IF colInfo = NULL THEN [kind |-> "select", text |-> <<>>]
             ELSE [kind |-> "select", text |-> colInfo.physicalName]

\* the callback of parsed.columns.map: the text for one requested column, or NULL
\* when the callback throws
SelectColumn(tableInfo, colName) ==
  IF colName = <<"*">>
    THEN [kind |-> "select",
          text |-> join([k \in 1..Len(tableInfo.table.columns) |->
                           tableInfo.table.columns[k].name], <<","," ">>)]
    ELSE LET colInfo == findColumnByBusinessName(tableInfo.table, colName)
         IN  IF colInfo = NULL THEN NULL
             ELSE [kind |-> "select", text |-> colInfo.physicalName]

\* mutation: a literal made of digits coerced to a number
FilterValueCoerced(colInfo, filter) ==
  IF Len(filter.value) > 0 /\ \A k \in 1..Len(filter.value) : filter.value[k] \in DigitSet
    THEN NumberParam(parseInt(filter.value))
    ELSE IF Len(colInfo.column.businessRules) > 0
           THEN findColumnValueFromBusinessRule(colInfo.column, filter.value)
           ELSE StringParam(filter.value)

\* filterValue of one filter
FilterValue(colInfo, filter) ==
  IF Len(colInfo.column.businessRules) > 0
    THEN findColumnValueFromBusinessRule(colInfo.column, filter.value)
    ELSE StringParam(filter.value)

\* mutation: a named placeholder instead of the positional one
WhereClauseNamed(colInfo, filter) ==
  colInfo.physicalName \o <<" ">> \o filter.operator \o <<" ",":">> \o colInfo.physicalName

\* mutation: the literal concatenated into the clause
WhereClauseInlined(colInfo, filter) ==
  colInfo.physicalName \o <<" ">> \o filter.operator \o <<" ">> \o filter.value

\* the text pushed to whereClauses for one filter
WhereClause(colInfo, filter) ==
  colInfo.physicalName \o <<" ">> \o filter.operator \o <<" ","?">>

\* mutation: the WHERE keyword appended whether or not there is a clause
QueryForIntentAlwaysWhere(contract, parsed) ==
  LET tableInfo == findTableByBusinessName(contract, parsed.target)
  IN  IF tableInfo = NULL THEN TableNotFound(parsed.target)
      ELSE
      LET selected == [k \in 1..Len(parsed.columns) |-> SelectColumn(tableInfo, parsed.columns[k])]
          badCols == {k \in 1..Len(parsed.columns) : selected[k] = NULL}
          filterCols == [k \in 1..Len(parsed.filters) |->
                           findColumnByBusinessName(tableInfo.table, parsed.filters[k].column)]
          badFilters == {k \in 1..Len(parsed.filters) : filterCols[k] = NULL}
      IN  IF badCols # {} THEN ColumnNotFound(parsed.columns[SetMin(badCols)], tableInfo)
          ELSE IF badFilters # {}
                 THEN ColumnNotFound(parsed.filters[SetMin(badFilters)].column, tableInfo)
          ELSE
          LET whereClauses == [k \in 1..Len(parsed.filters) |->
                                 WhereClause(filterCols[k], parsed.filters[k])]
              params == [k \in 1..Len(parsed.filters) |->
                           FilterValue(filterCols[k], parsed.filters[k])]
              selectColumns == [k \in 1..Len(selected) |-> selected[k].text]
              select == <<"S","E","L","E","C","T"," ">> \o join(selectColumns, <<","," ">>)  \* "SELECT " ", "
                          \o <<" ","F","R","O","M"," ">> \o tableInfo.physicalName  \* " FROM "
              where == <<" ","W","H","E","R","E"," ">> \o join(whereClauses, <<" ","A","N","D"," ">>)  \* " WHERE " " AND "
          IN  Result(select \o where \o <<";">>, params)

\* mutation: params.unshift instead of params.push
QueryForIntentUnshift(contract, parsed) ==
  LET tableInfo == findTableByBusinessName(contract, parsed.target)
  IN  IF tableInfo = NULL THEN TableNotFound(parsed.target)
      ELSE
      LET selected == [k \in 1..Len(parsed.columns) |-> SelectColumn(tableInfo, parsed.columns[k])]
          badCols == {k \in 1..Len(parsed.columns) : selected[k] = NULL}
          filterCols == [k \in 1..Len(parsed.filters) |->
                           findColumnByBusinessName(tableInfo.table, parsed.filters[k].column)]
          badFilters == {k \in 1..Len(parsed.filters) : filterCols[k] = NULL}
      IN  IF badCols # {} THEN ColumnNotFound(parsed.columns[SetMin(badCols)], tableInfo)
          ELSE IF badFilters # {}
                 THEN ColumnNotFound(parsed.filters[SetMin(badFilters)].column, tableInfo)
          ELSE
          LET whereClauses == [k \in 1..Len(parsed.filters) |->
                                 WhereClause(filterCols[k], parsed.filters[k])]
              params == [k \in 1..Len(parsed.filters) |->
                           FilterValue(filterCols[Len(parsed.filters) + 1 - k],
                                       parsed.filters[Len(parsed.filters) + 1 - k])]
              selectColumns == [k \in 1..Len(selected) |-> selected[k].text]
              select == <<"S","E","L","E","C","T"," ">> \o join(selectColumns, <<","," ">>)  \* "SELECT " ", "
                          \o <<" ","F","R","O","M"," ">> \o tableInfo.physicalName  \* " FROM "
              where == IF Len(whereClauses) > 0
                         THEN <<" ","W","H","E","R","E"," ">> \o join(whereClauses, <<" ","A","N","D"," ">>) ELSE <<>>  \* " WHERE " " AND "
          IN  Result(select \o where \o <<";">>, params)

\* mutation: the filters resolved before the output columns
QueryForIntentFiltersFirst(contract, parsed) ==
  LET tableInfo == findTableByBusinessName(contract, parsed.target)
  IN  IF tableInfo = NULL THEN TableNotFound(parsed.target)
      ELSE
      LET selected == [k \in 1..Len(parsed.columns) |-> SelectColumn(tableInfo, parsed.columns[k])]
          badCols == {k \in 1..Len(parsed.columns) : selected[k] = NULL}
          filterCols == [k \in 1..Len(parsed.filters) |->
                           findColumnByBusinessName(tableInfo.table, parsed.filters[k].column)]
          badFilters == {k \in 1..Len(parsed.filters) : filterCols[k] = NULL}
      IN  IF badFilters # {}
            THEN ColumnNotFound(parsed.filters[SetMin(badFilters)].column, tableInfo)
          ELSE IF badCols # {} THEN ColumnNotFound(parsed.columns[SetMin(badCols)], tableInfo)
          ELSE
          LET whereClauses == [k \in 1..Len(parsed.filters) |->
                                 WhereClause(filterCols[k], parsed.filters[k])]
              params == [k \in 1..Len(parsed.filters) |->
                           FilterValue(filterCols[k], parsed.filters[k])]
              selectColumns == [k \in 1..Len(selected) |-> selected[k].text]
              select == <<"S","E","L","E","C","T"," ">> \o join(selectColumns, <<","," ">>)  \* "SELECT " ", "
                          \o <<" ","F","R","O","M"," ">> \o tableInfo.physicalName  \* " FROM "
              where == IF Len(whereClauses) > 0
                         THEN <<" ","W","H","E","R","E"," ">> \o join(whereClauses, <<" ","A","N","D"," ">>) ELSE <<>>  \* " WHERE " " AND "
          IN  Result(select \o where \o <<";">>, params)

\* everything after a successful parse
QueryForIntent(contract, parsed) ==
  LET tableInfo == findTableByBusinessName(contract, parsed.target)
  IN  IF tableInfo = NULL THEN TableNotFound(parsed.target)
      ELSE
      LET selected == [k \in 1..Len(parsed.columns) |-> SelectColumn(tableInfo, parsed.columns[k])]
          badCols == {k \in 1..Len(parsed.columns) : selected[k] = NULL}
          filterCols == [k \in 1..Len(parsed.filters) |->
                           findColumnByBusinessName(tableInfo.table, parsed.filters[k].column)]
          badFilters == {k \in 1..Len(parsed.filters) : filterCols[k] = NULL}
      IN  IF badCols # {} THEN ColumnNotFound(parsed.columns[SetMin(badCols)], tableInfo)
          ELSE IF badFilters # {}
                 THEN ColumnNotFound(parsed.filters[SetMin(badFilters)].column, tableInfo)
          ELSE
          LET whereClauses == [k \in 1..Len(parsed.filters) |->
                                 WhereClause(filterCols[k], parsed.filters[k])]
              params == [k \in 1..Len(parsed.filters) |->
                           FilterValue(filterCols[k], parsed.filters[k])]
              selectColumns == [k \in 1..Len(selected) |-> selected[k].text]
              select == <<"S","E","L","E","C","T"," ">> \o join(selectColumns, <<","," ">>)  \* "SELECT " ", "
                          \o <<" ","F","R","O","M"," ">> \o tableInfo.physicalName  \* " FROM "
              where == IF Len(whereClauses) > 0
                         THEN <<" ","W","H","E","R","E"," ">> \o join(whereClauses, <<" ","A","N","D"," ">>) ELSE <<>>  \* " WHERE " " AND "
          IN  Result(select \o where \o <<";">>, params)

\* mutation: the wrong error code for an unparsed description
UnsupportedAsInvalidInput == Throw("INVALID_INPUT", UnsupportedMessage)

\* the error thrown when parseDescription returns null
UnsupportedDescription == Throw("UNSUPPORTED_OPERATION", UnsupportedMessage)

buildQueryFromDescriptionLogic(contract, description) ==
  LET parsed == parseDescription(description)
  IN  IF parsed = NULL THEN UnsupportedDescription
      ELSE IF parsed.kind = "error" THEN parsed
      ELSE QueryForIntent(contract, parsed)

(***************************************************************************)
(* Contracts the loader supplies                                           *)
(***************************************************************************)
\* the reference contract of the challenge questions (datacontract.yml), with the
\* tables and column order of the seeded schema
ReferenceContract ==
  [tables |-> <<
     Table(<<"c","u","s","t","_","m","s","t">>, <<"C","u","s","t","o","m","e","r">>, <<  \* "cust_mst" "Customer"
       Column(<<"c","_","i","d">>, <<"C","u","s","t","o","m","e","r"," ","I","D">>, <<>>),  \* "c_id" "Customer ID"
       Column(<<"c","_","n","a","m","e">>, <<"C","u","s","t","o","m","e","r"," ","N","a","m","e">>, <<>>) >>),  \* "c_name" "Customer Name"
     Table(<<"p","r","o","d">>, <<"P","r","o","d","u","c","t">>, <<  \* "prod" "Product"
       Column(<<"p","_","i","d">>, <<"P","r","o","d","u","c","t"," ","I","D">>, <<>>),  \* "p_id" "Product ID"
       Column(<<"p","_","n","a","m","e">>, <<"P","r","o","d","u","c","t"," ","N","a","m","e">>, <<>>),  \* "p_name" "Product Name"
       Column(<<"p","r","i","c","e">>, <<"P","r","i","c","e">>, <<>>) >>),  \* "price" "Price"
     Table(<<"s","o","_","h","d","r">>, <<"S","a","l","e","s"," ","O","r","d","e","r","s">>, <<  \* "so_hdr" "Sales Orders"
       Column(<<"o","r","d","_","i","d">>, <<"O","r","d","e","r"," ","I","D">>, <<>>),  \* "ord_id" "Order ID"
       Column(<<"o","r","d","_","s","t","a","t">>, <<"O","r","d","e","r"," ","S","t","a","t","u","s">>,  \* "ord_stat" "Order Status"
              << <<"1",":"," ","'","p","e","n","d","i","n","g","'",","," ","2",":"," ","'","s","h","i","p","p","e","d","'">>, <<"C","o","d","e"," ","5",":"," ","'","c","a","n","c","e","l","l","e","d","'">> >>),  \* "1: 'pending', 2: 'shipped'" "Code 5: 'cancelled'"
       Column(<<"c","_","i","d">>, <<"C","u","s","t","o","m","e","r"," ","I","D">>, <<>>) >>) >>,  \* "c_id" "Customer ID"
   abbreviations |-> << Abbreviation(<<"s","o">>, <<"S","a","l","e","s"," ","O","r","d","e","r">>), Abbreviation(<<"c","u","s","t">>, <<"C","u","s","t","o","m","e","r">>) >>]  \* "so" "Sales Order" "cust" "Customer"

\* mockContract of build_query_from_description.test.ts
MockContract ==
  [tables |-> <<
     Table(<<"C","U","S","T","_","M","S","T">>, <<"C","u","s","t","o","m","e","r">>, <<  \* "CUST_MST" "Customer"
       Column(<<"c","_","i","d">>, <<"C","u","s","t","o","m","e","r"," ","I","D">>, <<>>),  \* "c_id" "Customer ID"
       Column(<<"c","_","n","a","m","e">>, <<"C","u","s","t","o","m","e","r"," ","N","a","m","e">>, <<>>) >>) >>,  \* "c_name" "Customer Name"
   abbreviations |-> <<>>]

EmptyContract == [tables |-> <<>>, abbreviations |-> <<>>]

\* tables lacking a logical id or status column, or any column at all
SparseContract ==
  [tables |-> <<
     Table(<<"c","a","l">>, <<"P","r","o","d","u","c","t"," ","C","a","l","e","n","d","a","r">>, <<  \* "cal" "Product Calendar"
       Column(<<"d","a","y","_","n","a","m","e">>, <<"D","a","y"," ","N","a","m","e">>, <<>>) >>),  \* "day_name" "Day Name"
     Table(<<"s","o","_","a","r","c","h">>, <<"A","r","c","h","i","v","e","d"," ","S","a","l","e","s"," ","O","r","d","e","r","s">>, <<  \* "so_arch" "Archived Sales Orders"
       Column(<<"o","r","d","_","i","d">>, <<"O","r","d","e","r"," ","I","D">>, << <<"P","r","i","m","a","r","y"," ","k","e","y",":"," ","'","o","r","d","'">> >>) >>),  \* "ord_id" "Order ID" "Primary key: 'ord'"
     Table(<<"c","u","s","t","_","x">>, <<"C","u","s","t","o","m","e","r">>, <<>>) >>,  \* "cust_x" "Customer"
   abbreviations |-> <<>>]

\* a sales-orders table whose status labels are capitalised or packed in one rule,
\* and business names that contain one another
LegacyContract ==
  [tables |-> <<
     Table(<<"s","o","_","l","o","g">>, <<"S","a","l","e","s"," ","O","r","d","e","r","s"," ","L","o","g">>, <<  \* "so_log" "Sales Orders Log"
       Column(<<"r","e","f">>, <<"O","r","d","e","r"," ","I","d","e","n","t","i","f","i","e","r">>, <<>>),  \* "ref" "Order Identifier"
       Column(<<"l","o","g","_","i","d">>, <<"S","t","a","t","u","s"," ","L","o","g"," ","E","n","t","r","y">>, <<>>),  \* "log_id" "Status Log Entry"
       Column(<<"s","t","a","t","e","_","s","t","a","t","u","s">>, <<"S","t","a","t","e">>,  \* "state_status" "State"
              << <<"7",":"," ","'","C","a","n","c","e","l","l","e","d","'">>, <<"8",":","'","o","n"," ","h","o","l","d","'"," ","9",":"," ","'","S","E","L","E","C","T","'">>,  \* "7: 'Cancelled'" "8:'on hold' 9: 'SELECT'"
                 <<"1","0",":"," ","'","o","n"," ","h","o","l","d","'",","," ","1","1",":"," ","'","c","a","n","c","e","l","l","e","d","'",","," ","1","2",":"," ","'","o","p","e","n","'",","," ","1","3",":"," ","'","O","p","e","n","'">> >>) >>),  \* "10: 'on hold', 11: 'cancelled', 12: 'open', 13: 'Open'"
     Table(<<"i","n","v">>, <<"P","r","o","d","u","c","t"," ","C","a","t","a","l","o","g">>, <<  \* "inv" "Product Catalog"
       Column(<<"s","k","u","_","i","d">>, <<"S","K","U">>, <<>>),  \* "sku_id" "SKU"
       Column(<<"d","e","s","c","r">>, <<"P","r","o","d","u","c","t"," ","N","a","m","e">>, <<>>),  \* "descr" "Product Name"
       Column(<<"i","n","v","_","s","t","a","t","u","s">>, <<"S","t","o","c","k"," ","S","t","a","t","u","s">>, << <<"1",":"," ","'","a","c","t","i","v","e","'">> >>),  \* "inv_status" "Stock Status" "1: 'active'"
       Column(<<"b","r","a","n","d">>, <<"B","r","a","n","d"," ","N","a","m","e">>, <<>>) >>),  \* "brand" "Brand Name"
     Table(<<"p","r","o","d","_","o","l","d">>, <<"P","r","o","d","u","c","t">>, <<  \* "prod_old" "Product"
       Column(<<"p","_","i","d">>, <<"P","r","o","d","u","c","t"," ","I","D">>, <<>>),  \* "p_id" "Product ID"
       Column(<<"p","_","n","a","m","e">>, <<"P","r","o","d","u","c","t"," ","N","a","m","e">>, <<>>) >>) >>,  \* "p_name" "Product Name"
   abbreviations |-> << Abbreviation(<<"i","n","v">>, <<"I","n","v","e","n","t","o","r","y">>) >>]  \* "inv" "Inventory"

\* tables whose physical names follow no _id or _stat convention
PlainContract ==
  [tables |-> <<
     Table(<<"c","u","s","t","o","m","e","r","s">>, <<"C","u","s","t","o","m","e","r">>, <<  \* "customers" "Customer"
       Column(<<"n","u","m">>, <<"C","u","s","t","o","m","e","r"," ","N","u","m","b","e","r">>, <<>>),  \* "num" "Customer Number"
       Column(<<"c","n","a","m","e">>, <<"C","u","s","t","o","m","e","r"," ","N","a","m","e">>, <<>>) >>),  \* "cname" "Customer Name"
     Table(<<"p","r","o","d","u","c","t">>, <<"P","r","o","d","u","c","t">>, <<  \* "product" "Product"
       Column(<<"t","i","t","l","e">>, <<"P","r","o","d","u","c","t"," ","N","a","m","e">>, <<>>),  \* "title" "Product Name"
       Column(<<"w","i","d","t","h">>, <<"W","i","d","t","h">>, <<>>),  \* "width" "Width"
       Column(<<"c","o","d","e">>, <<"P","r","o","d","u","c","t"," ","I","d","e","n","t","i","f","i","e","r">>, <<>>) >>),  \* "code" "Product Identifier"
     Table(<<"o","r","d","e","r","s">>, <<"S","a","l","e","s"," ","O","r","d","e","r","s">>, <<  \* "orders" "Sales Orders"
       Column(<<"n","u","m">>, <<"O","r","d","e","r"," ","N","u","m","b","e","r">>, <<>>),  \* "num" "Order Number"
       Column(<<"i","d","e","n","t">>, <<"O","r","d","e","r"," ","I","d","e","n","t","i","f","i","e","r">>, <<>>),  \* "ident" "Order Identifier"
       Column(<<"s","t","a","t","e">>, <<"O","r","d","e","r"," ","S","t","a","t","u","s">>, << <<"3",":"," ","'","c","a","n","c","e","l","l","e","d","'">> >>),  \* "state" "Order Status" "3: 'cancelled'"
       Column(<<"h","i","s","t">>, <<"S","t","a","t","u","s"," ","H","i","s","t","o","r","y">>, <<>>) >>) >>,  \* "hist" "Status History"
   abbreviations |-> <<>>]

Contracts ==
  {ReferenceContract, MockContract, EmptyContract, SparseContract, LegacyContract,
   PlainContract}

(***************************************************************************)
(* Descriptions the callers send                                           *)
(***************************************************************************)
ColumnTerms ==
  {<<"C","u","s","t","o","m","e","r"," ","N","a","m","e">>, <<"c","u","s","t","o","m","e","r"," ","n","a","m","e">>, <<" ","C","u","s","t","o","m","e","r"," ","N","a","m","e"," ">>, <<"F","o","o">>, <<"n","a","m","e">>, <<"I","D">>, <<"S","t","a","t","u","s">>,  \* "Customer Name" "customer name" " Customer Name " "Foo" "name" "ID" "Status"
   <<>>}
EntityTerms == {<<"c","u","s","t","o","m","e","r">>, <<"C","u","s","t","o","m","e","r">>, <<"p","r","o","d","u","c","t">>, <<"w","i","d","g","e","t">>, <<"s","a","l","e","s"," ","o","r","d","e","r","s">>, <<>>}  \* "customer" "Customer" "product" "widget" "sales orders"
IdDigits == {<<"4">>, <<"1","2","3">>}  \* "4" "123"
OrderNumbers == {<<"1","0","0","1">>, <<"1","0","0","4">>}  \* "1001" "1004"
StatusValues == {<<"c","a","n","c","e","l","l","e","d">>, <<"C","a","n","c","e","l","l","e","d">>, <<"o","p","e","n">>, <<"s","h","i","p","p","e","d">>, <<"o","n"," ","h","o","l","d">>,  \* "cancelled" "Cancelled" "open" "shipped" "on hold"
                 <<"S","E","L","E","C","T">>, <<"o","r","d","_","i","d">>, <<>>}  \* "SELECT" "ord_id"
Qualifiers == {<<"P","r","o","d","u","c","t"," ","C","a","t","a","l","o","g">>, <<"C","u","s","t","o","m","e","r">>, <<"S","a","l","e","s"," ","O","r","d","e","r","s">>, <<"N","o","t","h","i","n","g">>}  \* "Product Catalog" "Customer" "Sales Orders" "Nothing"
Endings == {<<>>, <<"?">>, <<".">>}
PluralEntities == {<<"P","r","o","d","u","c","t"," ","C","a","t","a","l","o","g">>, <<"p","r","o","d","u","c","t","s">>, <<"c","u","s","t","o","m","e","r","s">>}  \* "Product Catalog" "products" "customers"
StockValues == {<<"a","c","t","i","v","e">>, <<"o","p","e","n">>}  \* "active" "open"

\* "Show me the <column> for the <entity> with ID <N>."
ShowMe(column, entity, n) ==
  <<"S","h","o","w"," ","m","e"," ","t","h","e"," ">> \o column \o <<" ","f","o","r"," ","t","h","e"," ">> \o entity \o <<" ","w","i","t","h"," ","I","D"," ">> \o n \o <<".">>  \* "Show me the " " for the " " with ID " "."
\* the phrasing of the unit test: lower case, no full stop
ShowMeLower(column, entity, n) ==
  <<"s","h","o","w"," ","m","e"," ","t","h","e"," ">> \o column \o <<" ","f","o","r"," ","t","h","e"," ">> \o entity \o <<" ","w","i","t","h"," ","i","d"," ">> \o n  \* "show me the " " for the " " with id "

\* "Which sales orders are <value>?"
WhichAre(value, ending) == <<"W","h","i","c","h"," ","s","a","l","e","s"," ","o","r","d","e","r","s"," ","a","r","e"," ">> \o value \o ending  \* "Which sales orders are "

\* the same question about another entity: "Which <entity-plural> are <value>?"
WhichEntityAre(entity, value, ending) == <<"W","h","i","c","h"," ">> \o entity \o <<" ","a","r","e"," ">> \o value \o ending  \* "Which " " are "

\* "List all <entity> in the '<qualifier>'."
ListAllIn(entity, qualifier, quote) ==
  <<"L","i","s","t"," ","a","l","l"," ">> \o entity \o <<" ","i","n"," ","t","h","e"," ">> \o <<quote>> \o qualifier \o <<quote>> \o <<".">>  \* "List all " " in the " "."

\* "What is the name of the <entity> with ID <N>?"
WhatIsTheName(entity, n, ending) ==
  <<"W","h","a","t"," ","i","s"," ","t","h","e"," ","n","a","m","e"," ","o","f"," ","t","h","e"," ">> \o entity \o <<" ","w","i","t","h"," ","I","D"," ">> \o n \o ending  \* "What is the name of the " " with ID "

\* the two join-shaped challenge questions
QuantityOf(n, ending) ==
  <<"W","h","a","t"," ","w","a","s"," ","t","h","e"," ","q","u","a","n","t","i","t","y"," ","o","f"," ","e","a","c","h"," ","p","r","o","d","u","c","t"," ","s","o","l","d"," ","i","n"," ","o","r","d","e","r"," ","n","u","m","b","e","r"," ">> \o n \o ending  \* "What was the quantity of each product sold in order number "
CustomerOf(n, ending) ==
  <<"F","i","n","d"," ","t","h","e"," ","n","a","m","e"," ","o","f"," ","t","h","e"," ","c","u","s","t","o","m","e","r"," ","w","h","o"," ","p","l","a","c","e","d"," ","o","r","d","e","r"," ","n","u","m","b","e","r"," ">> \o n \o ending  \* "Find the name of the customer who placed order number "

Unmatched ==
  { <<"g","i","b","b","e","r","i","s","h"," ","w","i","t","h"," ","n","o"," ","s","t","r","u","c","t","u","r","e">>, <<"T","h","i","s"," ","i","s"," ","n","o","t"," ","a"," ","s","u","p","p","o","r","t","e","d"," ","q","u","e","r","y",".">>, <<>>,  \* "gibberish with no structure" "This is not a supported query."
    <<"s","h","o","w"," ","m","e"," ","t","h","e"," ","c","u","s","t","o","m","e","r"," ","n","a","m","e">>, <<"W","h","i","c","h"," ","s","a","l","e","s"," ","o","r","d","e","r","s">>, <<"l","i","s","t"," ","a","l","l"," ","p","r","o","d","u","c","t","s"," ","i","n"," ","t","h","e"," ","c","a","t","a","l","o","g">>,  \* "show me the customer name" "Which sales orders" "list all products in the catalog"
    <<"W","h","a","t"," ","i","s"," ","t","h","e"," ","n","a","m","e"," ","o","f"," ","t","h","e"," ","p","r","o","d","u","c","t"," ","w","i","t","h"," ","I","D"," ","x","?">> }  \* "What is the name of the product with ID x?"

\* supported sentences inside a longer text, or broken by a line terminator
Embedded ==
  { <<"P","l","e","a","s","e"," ","s","h","o","w"," ","m","e"," ","t","h","e"," ","C","u","s","t","o","m","e","r"," ","N","a","m","e"," ","f","o","r"," ","t","h","e"," ","c","u","s","t","o","m","e","r"," ","w","i","t","h"," ","I","D"," ","4"," ","n","o","w">>,  \* "Please show me the Customer Name for the customer with ID 4 now"
    <<"T","e","l","l"," ","m","e"," ","w","h","i","c","h"," ","s","a","l","e","s"," ","o","r","d","e","r","s"," ","a","r","e"," ","o","p","e","n","?">>,  \* "Tell me which sales orders are open?"
    <<"W","h","i","c","h"," ","s","a","l","e","s"," ","o","r","d","e","r","s"," ","a","r","e"," ","o","p","e","n","?","\n">>,  \* "Which sales orders are open?\n"
    <<"s","h","o","w"," ","m","e"," ","t","h","e"," ","C","u","s","t","o","m","e","r","\n","N","a","m","e"," ","f","o","r"," ","t","h","e"," ","c","u","s","t","o","m","e","r"," ","w","i","t","h"," ","i","d"," ","4">>,  \* "show me the Customer\nName for the customer with id 4"
    <<"L","i","s","t"," ","a","l","l"," ","p","r","o","d","u","c","t","s"," ","i","n"," ","t","h","e"," ","'","P","r","o","d","u","c","t"," ","C","a","t","a","l","o","g","'"," ","a","n","d"," ","w","h","a","t"," ","i","s"," ","t","h","e"," ","n","a","m","e"," ","o","f"," ","t","h","e"," ","p","r","o","d","u","c","t"," ","w","i","t","h"," ","I","D"," ","1","0","2","?">>,  \* "List all products in the 'Product Catalog' and what is the name of the product with ID 102?"
    <<"S","h","o","w"," ","m","e"," ","t","h","e"," ","C","u","s","t","o","m","e","r"," ","N","a","m","e"," ","f","o","r"," ","t","h","e"," ","c","u","s","t","o","m","e","r"," ","w","i","t","h"," ","I","D"," ","4","."," ","W","h","a","t"," ","w","a","s"," ","t","h","e"," ","q","u","a","n","t","i","t","y"," ","o","f"," ","e","a","c","h"," ","p","r","o","d","u","c","t"," ","s","o","l","d"," ","i","n"," ","o","r","d","e","r"," ","n","u","m","b","e","r"," ","1","0","0","1","?">> }  \* "Show me the Customer Name for the customer with ID 4. What was the quantity of each product sold in order number 1001?"

\* a supported sentence inside a polite request
Please(sentence) == <<"P","l","e","a","s","e"," ">> \o sentence \o <<" ","n","o","w">>  \* "Please " " now"

Descriptions ==
  {ShowMe(c, e, n) : c \in ColumnTerms, e \in EntityTerms, n \in IdDigits}
    \cup {ShowMeLower(c, e, n) : c \in ColumnTerms, e \in EntityTerms, n \in IdDigits}
    \cup {WhichAre(v, x) : v \in StatusValues, x \in Endings}
    \cup {WhichEntityAre(e, v, x) : e \in PluralEntities, v \in StockValues, x \in Endings}
    \cup {ListAllIn(e, q, x) : e \in EntityTerms, q \in Qualifiers, x \in Quotes}
    \cup {WhatIsTheName(e, n, x) : e \in EntityTerms, n \in IdDigits, x \in Endings}
    \cup {QuantityOf(n, x) : n \in OrderNumbers, x \in Endings}
    \cup {CustomerOf(n, x) : n \in OrderNumbers, x \in Endings}
    \cup Unmatched
    \cup Embedded
    \cup {Please(ShowMeLower(c, e, n)) : c \in ColumnTerms, e \in {<<"c","u","s","t","o","m","e","r">>, <<"w","i","d","g","e","t">>},  \* "customer" "widget"
                                         n \in {<<"4">>}}

(***************************************************************************)
(* State machine: callers submit descriptions, the engine translates them. *)
(* buildQueryFromDescriptionLogic has no await, so a call runs to its end  *)
(* without interleaving with another call.                                  *)
(***************************************************************************)
VARIABLES
  contract,     \* the SchemaContract instance shared by all calls
  description,  \* input.description of the current call
  pc,           \* "pending": the call is submitted; "done": it has returned or thrown
  outcome,      \* what the latest call returned or threw
  first,        \* the first completed call, kept to compare later calls with
  input,        \* params handed to the registered tool handler
  response,     \* what the tool handler returned to the MCP server
  jobs,         \* SchedulerService.jobs: the Map's entries in insertion order
  lastCall,     \* the latest call of a SchedulerService method and what it threw
  removedIds,   \* the ids remove() has deleted so far
  executions,   \* the calls of a taskFunction that have not settled yet
  intent        \* a parsed intent handed to the query assembler

toolVars == <<input, response>>
schedulerVars == <<jobs, lastCall, removedIds, executions>>
engineVars == <<contract, description, pc, outcome, first>>
vars == <<contract, description, pc, outcome, first, toolVars, schedulerVars, intent>>

NoOutcome == [kind |-> "none", code |-> "", message |-> <<>>, sql_query |-> <<>>, params |-> <<>>]
NoCall == [kind |-> "none", description |-> <<>>, outcome |-> NoOutcome]
NoIntent == [kind |-> "none", target |-> <<>>, columns |-> <<>>, filters |-> <<>>]
NoJobCall == [op |-> "none", id |-> <<>>, schedule |-> <<>>, description |-> <<>>, error |-> <<>>]
NoInput == [keys |-> {}, type |-> "undefined", description |-> <<>>]
StructuredContent(keys, sql_query, params, error) ==
  [keys |-> keys, sql_query |-> sql_query, params |-> params, error |-> error]
NoResponse ==
  [kind |-> "none", isError |-> FALSE, text |-> <<>>,
   structuredContent |-> StructuredContent({}, <<>>, <<>>, <<>>)]

Init ==
  /\ contract \in Contracts
  /\ description \in Descriptions
  /\ pc = "pending"
  /\ outcome = NoOutcome
  /\ first = NoCall
  /\ input = NoInput
  /\ response = NoResponse
  /\ jobs = <<>>
  /\ lastCall = NoJobCall
  /\ removedIds = {}
  /\ executions = <<>>
  /\ intent = NoIntent

\* mutation: whereClauses' companion array params hoisted to module scope, so
\* that the values of earlier calls stay in it
TranslateSharedParams ==
  /\ pc = "pending"
  /\ outcome' = LET r == buildQueryFromDescriptionLogic(contract, description)
                IN  IF r.kind = "ok" THEN [r EXCEPT !.params = outcome.params \o @] ELSE r
  /\ pc' = "done"
  /\ UNCHANGED <<contract, description, first, toolVars, schedulerVars, intent>>

\* mutation: the business names lower-cased in place before they are compared
TranslateNormalising ==
  /\ pc = "pending"
  /\ outcome' = buildQueryFromDescriptionLogic(contract, description)
  /\ pc' = "done"
  /\ contract' = [contract EXCEPT !.tables =
                    [k \in 1..Len(@) |-> [@[k] EXCEPT !.businessName = toLowerCase(@)]]]
  /\ UNCHANGED <<description, first, toolVars, schedulerVars, intent>>

\* one call of buildQueryFromDescriptionLogic(contract, {description})
Translate ==
  /\ pc = "pending"
  /\ outcome' = buildQueryFromDescriptionLogic(contract, description)
  /\ pc' = "done"
  /\ UNCHANGED <<contract, description, first, toolVars, schedulerVars, intent>>

Next == Translate

Spec == Init /\ [][Next]_vars

\* the descriptions of the callers that call repeatedly
CallDescriptions ==
  { ShowMe(<<"C","u","s","t","o","m","e","r"," ","N","a","m","e">>, <<"c","u","s","t","o","m","e","r">>, <<"4">>),  \* "Customer Name" "customer" "4"
    ShowMe(<<"F","o","o">>, <<"c","u","s","t","o","m","e","r">>, <<"4">>),  \* "Foo" "customer" "4"
    WhichAre(<<"c","a","n","c","e","l","l","e","d">>, <<"?">>),  \* "cancelled" "?"
    WhichAre(<<"o","p","e","n">>, <<"?">>),  \* "open" "?"
    ListAllIn(<<"p","r","o","d","u","c","t","s">>, <<"P","r","o","d","u","c","t"," ","C","a","t","a","l","o","g">>, "'"),  \* "products" "Product Catalog"
    QuantityOf(<<"1","0","0","1">>, <<"?">>),  \* "1001" "?"
    <<"g","i","b","b","e","r","i","s","h"," ","w","i","t","h"," ","n","o"," ","s","t","r","u","c","t","u","r","e">> }  \* "gibberish with no structure"

InitCalls ==
  /\ contract \in Contracts
  /\ description \in CallDescriptions
  /\ pc = "pending"
  /\ outcome = NoOutcome
  /\ first = NoCall
  /\ input = NoInput
  /\ response = NoResponse
  /\ jobs = <<>>
  /\ lastCall = NoJobCall
  /\ removedIds = {}
  /\ executions = <<>>
  /\ intent = NoIntent

\* a caller makes the next call, after the previous one has settled
Submit ==
  /\ pc = "done"
  /\ \E d \in CallDescriptions : description' = d
  /\ pc' = "pending"
  /\ first' = IF first = NoCall
                THEN [kind |-> "call", description |-> description, outcome |-> outcome]
                ELSE first
  /\ UNCHANGED <<contract, outcome, toolVars, schedulerVars, intent>>

NextCalls == Translate \/ Submit

SpecCalls == InitCalls /\ [][NextCalls]_vars

(***************************************************************************)
(* The query assembler on its own: the part of                             *)
(* buildQueryFromDescriptionLogic after parseDescription, for intents with *)
(* any number of filters                                                   *)
(***************************************************************************)
\* filters a rule set may extract: logical fields, operators and raw values
FilterPool ==
  { Filter(<<"i","d">>, <<"4">>),
    Filter(<<"s","t","a","t","u","s">>, <<"c","a","n","c","e","l","l","e","d">>),  \* "status" "cancelled"
    [column |-> <<"n","a","m","e">>, operator |-> <<"<",">">>, value |-> <<"A","c","m","e">>] }  \* "name" "<>" "Acme"

\* filter lists of up to three different filters, in every order
FilterLists ==
  {<<>>}
    \cup {<<a>> : a \in FilterPool}
    \cup {list \in FilterPool \X FilterPool : list[1] # list[2]}
    \cup {list \in FilterPool \X FilterPool \X FilterPool :
            Cardinality({list[1], list[2], list[3]}) = 3}

Intents ==
  {Intent(target, columns, filters) :
     target \in {<<"c","u","s","t","o","m","e","r">>, <<"s","a","l","e","s"," ","o","r","d","e","r","s">>, <<"p","r","o","d","u","c","t">>},  \* "customer" "sales orders" "product"
     columns \in {<< <<"i","d">> >>, << <<"*">> >>},
     filters \in FilterLists}

InitAssembler ==
  /\ contract \in Contracts
  /\ intent \in Intents
  /\ description = <<>>
  /\ pc = "pending"
  /\ outcome = NoOutcome
  /\ first = NoCall
  /\ input = NoInput
  /\ response = NoResponse
  /\ jobs = <<>>
  /\ lastCall = NoJobCall
  /\ removedIds = {}
  /\ executions = <<>>

\* lines 174-216 for one intent
Assemble ==
  /\ pc = "pending"
  /\ outcome' = QueryForIntent(contract, intent)
  /\ pc' = "done"
  /\ UNCHANGED <<contract, description, first, toolVars, schedulerVars, intent>>

NextAssembler == Assemble

SpecAssembler == InitAssembler /\ [][NextAssembler]_vars

(***************************************************************************)
(* The registered tool: registerBuildQueryFromDescription's handler        *)
(***************************************************************************)
\* params as the handler receives them: the keys of the object and the type
\* and value of its description
ToolInput(text) == [keys |-> {"description"}, type |-> "string", description |-> text]

\* what a schema's parse throws; the message holds the code of the first issue
ZodError(issue) == Throw("ZodError", issue)

\* buildQueryFromDescriptionInputSchema.parse(params): a strict object with a
\* string description
inputSchemaParse(params) ==
  IF "description" \notin params.keys \/ params.type # "string" THEN ZodError(<<"i","n","v","a","l","i","d","_","t","y","p","e">>)  \* "invalid_type"
  ELSE IF params.keys # {"description"} THEN ZodError(<<"u","n","r","e","c","o","g","n","i","z","e","d","_","k","e","y","s">>)  \* "unrecognized_keys"
  ELSE [kind |-> "input", description |-> params.description]

\* buildQueryFromDescriptionOutputSchema.parse(result): a strict object with a
\* string sql_query and string or number params
outputSchemaParse(result) ==
  IF \A k \in 1..Len(result.params) : result.params[k].type \in {"string", "number"}
    THEN result
    ELSE ZodError(<<"i","n","v","a","l","i","d","_","u","n","i","o","n">>)  \* "invalid_union"

\* measureToolExecution(fn, context, input): the result or the error of fn,
\* with the duration recorded
measureToolExecution(result) == result

McpErrorCodes == {"UNSUPPORTED_OPERATION", "INVALID_INPUT"}

\* ErrorHandler.handleError(err, {operation, context, input}): logs and returns
\* an McpError; an McpError keeps its code and message, any other error is
\* wrapped with the operation's name
handleError(err) ==
  IF err.code \in McpErrorCodes THEN err
  ELSE Throw("INTERNAL_ERROR", <<"E","r","r","o","r"," ","i","n"," ","b","u","i","l","d","_","q","u","e","r","y","_","f","r","o","m","_","d","e","s","c","r","i","p","t","i","o","n",":"," ">> \o err.message)  \* "Error in build_query_from_description: "

\* the object returned from the try block
ToolResult(validatedOutput) ==
  [kind |-> "returned", isError |-> FALSE,
   text |-> <<"G","e","n","e","r","a","t","e","d"," ","S","Q","L",":"," ">> \o validatedOutput.sql_query,  \* "Generated SQL: "
   structuredContent |-> StructuredContent({"sql_query", "params"}, validatedOutput.sql_query,
                                           validatedOutput.params, <<>>)]

\* the object returned from the catch block
ToolError(handledError) ==
  [kind |-> "returned", isError |-> TRUE,
   text |-> <<"E","r","r","o","r",":"," ">> \o handledError.message,  \* "Error: "
   structuredContent |-> StructuredContent({"error"}, <<>>, <<>>, handledError.message)]

\* an error that leaves the handler
Escaped(err) ==
  [kind |-> "thrown", isError |-> FALSE, text |-> err.message,
   structuredContent |-> StructuredContent({}, <<>>, <<>>, <<>>)]

\* lines 55-68 and the catch block for what the awaited engine call gave
Respond(result) ==
  IF result.kind = "error" THEN ToolError(handleError(result))
  ELSE IF outputSchemaParse(result).kind = "error"
         THEN ToolError(handleError(outputSchemaParse(result)))
  ELSE ToolResult(outputSchemaParse(result))

\* mutation: the catch block rethrows what handleError returns
toolHandlerRethrowing(schemaContract, params) ==
  IF inputSchemaParse(params).kind = "error" THEN Escaped(handleError(inputSchemaParse(params)))
  ELSE LET result == measureToolExecution(
                       buildQueryFromDescriptionLogic(schemaContract,
                                                      inputSchemaParse(params).description))
       IN  IF Respond(result).isError THEN Escaped(handleError(result)) ELSE Respond(result)

\* the async handler passed to server.registerTool
toolHandler(schemaContract, params) ==
  IF inputSchemaParse(params).kind = "error" THEN ToolError(handleError(inputSchemaParse(params)))
  ELSE Respond(measureToolExecution(
                 buildQueryFromDescriptionLogic(schemaContract,
                                                inputSchemaParse(params).description)))

\* the descriptions of registration.test.ts and of the challenge questions
ToolDescriptions ==
  { <<"s","h","o","w"," ","m","e"," ","t","h","e"," ","c","u","s","t","o","m","e","r"," ","n","a","m","e"," ","f","o","r"," ","t","h","e"," ","c","u","s","t","o","m","e","r"," ","w","i","t","h"," ","i","d"," ","1","2","3">>,  \* "show me the customer name for the customer with id 123"
    <<"t","h","i","s"," ","i","s"," ","a","n"," ","u","n","s","u","p","p","o","r","t","e","d"," ","q","u","e","r","y">> }  \* "this is an unsupported query"
    \cup CallDescriptions
    \cup {QuantityOf(n, x) : n \in OrderNumbers, x \in Endings}
    \cup {CustomerOf(n, x) : n \in OrderNumbers, x \in Endings}

\* params that the input schema rejects: {}, {description: 5} and an extra key
RejectedInputs ==
  { [keys |-> {}, type |-> "undefined", description |-> <<>>],
    [keys |-> {"description"}, type |-> "number", description |-> <<>>],
    [keys |-> {"description", "limit"}, type |-> "string", description |-> <<"l","i","s","t"," ","a","l","l">> ] }  \* "list all"

ToolInputs == {ToolInput(d) : d \in ToolDescriptions} \cup RejectedInputs

InitTool ==
  /\ contract \in Contracts
  /\ input \in ToolInputs
  /\ description = <<>>
  /\ pc = "pending"
  /\ outcome = NoOutcome
  /\ first = NoCall
  /\ response = NoResponse
  /\ jobs = <<>>
  /\ lastCall = NoJobCall
  /\ removedIds = {}
  /\ executions = <<>>
  /\ intent = NoIntent

\* one call of the handler: the engine's outcome is kept next to the response
HandleToolRequest ==
  /\ pc = "pending"
  /\ LET parsed == inputSchemaParse(input)
     IN  /\ description' = IF parsed.kind = "error" THEN <<>> ELSE parsed.description
         /\ outcome' = IF parsed.kind = "error" THEN NoOutcome
                        ELSE buildQueryFromDescriptionLogic(contract, parsed.description)
  /\ response' = toolHandler(contract, input)
  /\ pc' = "done"
  /\ UNCHANGED <<contract, first, input, schedulerVars, intent>>

NextTool == HandleToolRequest

SpecTool == InitTool /\ [][NextTool]_vars

(***************************************************************************)
(* SchedulerService: the registry of cron jobs                             *)
(***************************************************************************)
\* cron.validate(schedule) of node-cron, reduced to the shape of a pattern:
\* five or six space-separated fields made of digits and * / - ,
validate(pattern) ==
  LET fields == {i \in 1..Len(pattern) :
                   pattern[i] # " " /\ (i = 1 \/ pattern[i - 1] = " ")}
  IN  /\ Cardinality(fields) \in {5, 6}
      /\ \A i \in 1..Len(pattern) : pattern[i] \in DigitSet \cup {"*", "/", "-", ",", " "}

\* a Job; task is the state of its node-cron ScheduledTask
Job(id, pattern, text) ==
  [id |-> id, schedule |-> pattern, description |-> text, task |-> "created", isRunning |-> FALSE]

\* this.jobs.has(id) and the position of the entry
has(id) == \E k \in 1..Len(jobs) : jobs[k].id = id
IndexOf(id) == CHOOSE k \in 1..Len(jobs) : jobs[k].id = id

\* listJobs(): Array.from(this.jobs.values())
listJobs(registry) == registry

\* Map.prototype.set: an existing key keeps its position, a new key goes last
MapSet(registry, job) ==
  IF \E k \in 1..Len(registry) : registry[k].id = job.id
    THEN [k \in 1..Len(registry) |-> IF registry[k].id = job.id THEN job ELSE registry[k]]
    ELSE Append(registry, job)

\* Map.prototype.delete
MapDelete(registry, id) == SelectSeq(registry, LAMBDA j : j.id # id)

AlreadyExists(id) == <<"J","o","b"," ","w","i","t","h"," ","I","D"," ","'">> \o id \o <<"'"," ","a","l","r","e","a","d","y"," ","e","x","i","s","t","s",".">>  \* "Job with ID '" "' already exists."
InvalidSchedule(pattern) == <<"I","n","v","a","l","i","d"," ","c","r","o","n"," ","s","c","h","e","d","u","l","e",":"," ">> \o pattern  \* "Invalid cron schedule: "
NotFound(id) == <<"J","o","b"," ","w","i","t","h"," ","I","D"," ","'">> \o id \o <<"'"," ","n","o","t"," ","f","o","u","n","d",".">>  \* "Job with ID '" "' not found."

JobCall(op, id, pattern, text, error) ==
  [op |-> op, id |-> id, schedule |-> pattern, description |-> text, error |-> error]

\* mutation: no check of this.jobs.has(id), the new job replaces the old one
scheduleOverwriting(id, pattern, text) ==
  /\ IF ~ validate(pattern)
       THEN /\ lastCall' = JobCall("schedule", id, pattern, text, InvalidSchedule(pattern))
            /\ UNCHANGED jobs
       ELSE /\ jobs' = MapSet(jobs, Job(id, pattern, text))
            /\ lastCall' = JobCall("schedule", id, pattern, text, <<>>)
  /\ UNCHANGED <<removedIds, executions, engineVars, toolVars, intent>>

\* schedule(id, schedule, taskFunction, description)
schedule(id, pattern, text) ==
  /\ IF has(id)
       THEN /\ lastCall' = JobCall("schedule", id, pattern, text, AlreadyExists(id))
            /\ UNCHANGED jobs
       ELSE IF ~ validate(pattern)
       THEN /\ lastCall' = JobCall("schedule", id, pattern, text, InvalidSchedule(pattern))
            /\ UNCHANGED jobs
       ELSE /\ jobs' = MapSet(jobs, Job(id, pattern, text))
            /\ lastCall' = JobCall("schedule", id, pattern, text, <<>>)
  /\ UNCHANGED <<removedIds, executions, engineVars, toolVars, intent>>

\* job.task.start() or job.task.stop() on the job registered under id
SetTask(id, state) == [jobs EXCEPT ![IndexOf(id)].task = state]

\* start(id)
start(id) ==
  /\ IF ~ has(id)
       THEN /\ lastCall' = JobCall("start", id, <<>>, <<>>, NotFound(id))
            /\ UNCHANGED jobs
       ELSE /\ jobs' = SetTask(id, "started")
            /\ lastCall' = JobCall("start", id, <<>>, <<>>, <<>>)
  /\ UNCHANGED <<removedIds, executions, engineVars, toolVars, intent>>

\* stop(id)
stop(id) ==
  /\ IF ~ has(id)
       THEN /\ lastCall' = JobCall("stop", id, <<>>, <<>>, NotFound(id))
            /\ UNCHANGED jobs
       ELSE /\ jobs' = SetTask(id, "stopped")
            /\ lastCall' = JobCall("stop", id, <<>>, <<>>, <<>>)
  /\ UNCHANGED <<removedIds, executions, engineVars, toolVars, intent>>

\* the most calls of a taskFunction in flight at once
MaxInFlight == 2

\* a call of taskFunction made by the callback of job id; job is the Job object
\* the callback read from this.jobs: still the registered one, or one deleted
\* from the Map since
Execution(id, job) == [id |-> id, job |-> job]

\* this.jobs.delete(id): the callbacks in flight keep the deleted Job object
Detach(id) ==
  [k \in 1..Len(executions) |->
     IF executions[k].id = id THEN Execution(id, "deleted") ELSE executions[k]]

\* job.isRunning = value on the job registered under id
SetRunning(id, value) == [jobs EXCEPT ![IndexOf(id)].isRunning = value]

\* the callback given to createTask, up to its await: node-cron calls it for a
\* started task at each time the pattern matches
tick(id) ==
  /\ has(id)
  /\ jobs[IndexOf(id)].task = "started"
  /\ Len(executions) < MaxInFlight
  /\ IF jobs[IndexOf(id)].isRunning
       THEN /\ lastCall' = JobCall("skip", id, <<>>, <<>>, <<>>)
            /\ UNCHANGED <<jobs, executions>>
       ELSE /\ jobs' = SetRunning(id, TRUE)
            /\ executions' = Append(executions, Execution(id, "registered"))
            /\ lastCall' = JobCall("tick", id, <<>>, <<>>, <<>>)
  /\ UNCHANGED <<removedIds, engineVars, toolVars, intent>>

\* the rest of the callback: taskFunction's promise resolves or rejects, and
\* finally resets isRunning on the Job object the callback holds
settle(k, rejected) ==
  /\ k \in 1..Len(executions)
  /\ jobs' = IF executions[k].job = "registered"
              THEN SetRunning(executions[k].id, FALSE) ELSE jobs
  /\ executions' = [m \in 1..(Len(executions) - 1) |->
                      IF m < k THEN executions[m] ELSE executions[m + 1]]
  /\ lastCall' = JobCall(IF rejected THEN "failed" ELSE "completed",
                         executions[k].id, <<>>, <<>>, <<>>)
  /\ UNCHANGED <<removedIds, engineVars, toolVars, intent>>

\* remove(id): the task is stopped, then the entry deleted
remove(id) ==
  /\ IF ~ has(id)
       THEN /\ lastCall' = JobCall("remove", id, <<>>, <<>>, NotFound(id))
            /\ UNCHANGED <<jobs, removedIds, executions>>
       ELSE /\ jobs' = MapDelete(SetTask(id, "stopped"), id)
            /\ executions' = Detach(id)
            /\ removedIds' = removedIds \cup {id}
            /\ lastCall' = JobCall("remove", id, <<>>, <<>>, <<>>)
  /\ UNCHANGED <<engineVars, toolVars, intent>>

\* the ids, cron patterns and descriptions of scheduler.test.ts
JobIds == {<<"d","u","p","l","i","c","a","t","e","-","j","o","b">>, <<"r","e","m","o","v","a","b","l","e","-","j","o","b">>}  \* "duplicate-job" "removable-job"
Schedules == {<<"0"," ","0"," ","*"," ","*"," ","*">>, <<"*","/","5"," ","*"," ","*"," ","*"," ","*">>, <<"i","n","v","a","l","i","d"," ","c","r","o","n"," ","p","a","t","t","e","r","n">>}  \* "0 0 * * *" "*/5 * * * *" "invalid cron pattern"
JobDescriptions == {<<"F","i","r","s","t"," ","j","o","b">>, <<"S","e","c","o","n","d"," ","j","o","b">>}  \* "First job" "Second job"

\* the singleton after getInstance(): no job is registered
InitScheduler ==
  /\ jobs = <<>>
  /\ lastCall = NoJobCall
  /\ removedIds = {}
  /\ executions = <<>>
  /\ intent = NoIntent
  /\ contract = EmptyContract
  /\ description = <<>>
  /\ pc = "idle"
  /\ outcome = NoOutcome
  /\ first = NoCall
  /\ input = NoInput
  /\ response = NoResponse

NextScheduler ==
  \/ \E id \in JobIds, pattern \in Schedules, text \in JobDescriptions : schedule(id, pattern, text)
  \/ \E id \in JobIds : start(id)
  \/ \E id \in JobIds : stop(id)
  \/ \E id \in JobIds : remove(id)
  \/ \E id \in JobIds : tick(id)
  \/ \E k \in 1..MaxInFlight, rejected \in BOOLEAN : settle(k, rejected)

SpecScheduler == InitScheduler /\ [][NextScheduler]_vars

(***************************************************************************)
(* Properties                                                              *)
(***************************************************************************)
Done == pc = "done"
Succeeded == Done /\ outcome.kind = "ok"
Failed(code) == Done /\ outcome.kind = "error" /\ outcome.code = code

\* the intent of the current description and the table it resolves to
Parsed == parseDescription(description)
ParsedIntent == Parsed # NULL /\ Parsed.kind = "intent"
TargetTable == findTableByBusinessName(contract, Parsed.target)

Positions(s, c) == {i \in 1..Len(s) : s[i] = c}
Nth(S, i) == CHOOSE x \in S : Cardinality({y \in S : y <= x}) = i

\* the bare tokens of an SQL text: maximal runs without blank, comma or semicolon
Separators == {" ", ",", ";"}
RECURSIVE Tokens(_)
Tokens(s) ==
  IF Len(s) = 0 THEN <<>>
  ELSE IF s[1] \in Separators THEN Tokens(Tail(s))
  ELSE LET e == SetMin({k \in 2..(Len(s) + 1) : k = Len(s) + 1 \/ s[k] \in Separators})
       IN  << SubSeq(s, 1, e - 1) >> \o Tokens(SubSeq(s, e, Len(s)))

\* C1: in every successful output the number of ? placeholders in sql_query
\* equals params.length, and the i-th placeholder closes the clause of the i-th
\* filter, whose (mapped) value is params[i].
PlaceholderParity ==
  Succeeded =>
    LET sql == outcome.sql_query
        marks == Positions(sql, "?")
    IN  /\ Cardinality(marks) = Len(outcome.params)
        /\ Len(outcome.params) = Len(Parsed.filters)
        /\ \A i \in 1..Len(outcome.params) :
             LET f == Parsed.filters[i]
                 colInfo == findColumnByBusinessName(TargetTable.table, f.column)
                 clause == colInfo.physicalName \o <<" ","="," ","?">>  \* " = ?"
             IN  /\ LitAt(sql, Nth(marks, i) - Len(clause) + 1, clause)
                 /\ outcome.params[i] \in
                      {StringParam(f.value)} \cup
                      {NumberParam(parseInt(m.code)) :
                         m \in Range(AllRuleMatches(colInfo.column.businessRules))}

PlaceholderParityWitness ==
  /\ Succeeded
  /\ Len(outcome.params) = 1
  /\ Cardinality(Positions(outcome.sql_query, "?")) = 1

\* C2 as stated: no filter's raw literal occurs as a bare token of sql_query
\* (the placeholder itself aside).
LiteralNeverABareToken ==
  Succeeded =>
    \A k \in 1..Len(Parsed.filters) :
      \A t \in Range(Tokens(outcome.sql_query)) :
        t # <<"?">> => t # Parsed.filters[k].value

ProbeValues == StatusValues \cup IdDigits
WithFilterValue(parsed, v) ==
  [parsed EXCEPT !.filters = [k \in 1..Len(@) |-> [@[k] EXCEPT !.value = v]]]

\* C2, amended: sql_query does not depend on the filter's raw literal (the same
\* description with any other literal yields the same sql_query), and the literal
\* reaches the output only through params, as itself or as a mapped integer code.
SqlIndependentOfLiteral ==
  Succeeded =>
    /\ \A v \in ProbeValues :
         QueryForIntent(contract, WithFilterValue(Parsed, v)).sql_query = outcome.sql_query
    /\ \A k \in 1..Len(Parsed.filters) :
         outcome.params[k].type = "string" => outcome.params[k].str = Parsed.filters[k].value

\* a literal that is also a token of the statement travels in params only
SqlIndependentOfLiteralWitness ==
  /\ Succeeded
  /\ contract = ReferenceContract
  /\ description = WhichAre(<<"S","E","L","E","C","T">>, <<"?">>)  \* "SELECT" "?"
  /\ outcome.sql_query = <<"S","E","L","E","C","T"," ","o","r","d","_","i","d"," ","F","R","O","M"," ","s","o","_","h","d","r"," ","W","H","E","R","E"," ","o","r","d","_","s","t","a","t"," ","="," ","?",";">>  \* "SELECT ord_id FROM so_hdr WHERE ord_stat = ?;"
  /\ outcome.params = << StringParam(<<"S","E","L","E","C","T">>) >>  \* "SELECT"

TableNames == {contract.tables[k].name : k \in 1..Len(contract.tables)}
ColumnNames(tableName) ==
  UNION {{contract.tables[k].columns[j].name : j \in 1..Len(contract.tables[k].columns)} :
           k \in {k \in 1..Len(contract.tables) : contract.tables[k].name = tableName}}

\* C3: in every successful output the table after FROM is a key of
\* contract.tables and every column in the SELECT list and in the WHERE clause is
\* a key of that table's columns; no other identifier occurs in sql_query.
IdentifiersFromContract ==
  Succeeded =>
    LET toks == Tokens(outcome.sql_query)
        fromAt == SetMin({k \in 1..Len(toks) : toks[k] = <<"F","R","O","M">>} \cup {Len(toks) + 1})  \* "FROM"
    IN  /\ Len(toks) >= 3
        /\ toks[1] = <<"S","E","L","E","C","T">>  \* "SELECT"
        /\ fromAt < Len(toks)
        /\ toks[fromAt + 1] \in TableNames
        /\ \A k \in 2..(fromAt - 1) : toks[k] \in ColumnNames(toks[fromAt + 1])
        /\ Len(toks) > fromAt + 1 => toks[fromAt + 2] = <<"W","H","E","R","E">>  \* "WHERE"
        /\ \A k \in (fromAt + 3)..Len(toks) :
             \/ toks[k] \in {<<"=">>, <<"?">>, <<"A","N","D">>}  \* "=" "?" "AND"
             \/ toks[k] \in ColumnNames(toks[fromAt + 1])

IdentifiersFromContractWitness ==
  /\ Succeeded
  /\ description = ShowMe(<<"C","u","s","t","o","m","e","r"," ","N","a","m","e">>, <<"c","u","s","t","o","m","e","r">>, <<"4">>)  \* "Customer Name" "customer" "4"
  /\ outcome.sql_query = <<"S","E","L","E","C","T"," ","c","_","n","a","m","e"," ","F","R","O","M"," ","c","u","s","t","_","m","s","t"," ","W","H","E","R","E"," ","c","_","i","d"," ","="," ","?",";">>  \* "SELECT c_name FROM cust_mst WHERE c_id = ?;"

JoinQuestions ==
  {QuantityOf(n, x) : n \in OrderNumbers, x \in Endings}
    \cup {CustomerOf(n, x) : n \in OrderNumbers, x \in Endings}

\* C5: the two join-shaped reference questions raise UnsupportedOperation and
\* return no query, for every contract and every order number.
JoinQuestionsUnsupported ==
  (Done /\ description \in JoinQuestions) =>
    /\ Failed("UNSUPPORTED_OPERATION")
    /\ outcome.message = UnsupportedMessage
    /\ outcome.sql_query = <<>>

JoinQuestionsUnsupportedWitness ==
  /\ Failed("UNSUPPORTED_OPERATION")
  /\ description = CustomerOf(<<"1","0","0","4">>, <<"?">>)  \* "1004" "?"
  /\ contract = ReferenceContract

NoPatternMatches ==
  \A k \in 1..Len(supportedPatterns(description)) : supportedPatterns(description)[k] = NULL

\* C6: a description that matches none of the sentence patterns raises
\* UnsupportedOperation, whatever the contract holds, and returns no query.
UnmatchedIsUnsupported ==
  (Done /\ NoPatternMatches) =>
    /\ Failed("UNSUPPORTED_OPERATION")
    /\ outcome.message = UnsupportedMessage
    /\ outcome.sql_query = <<>>

UnmatchedIsUnsupportedWitness ==
  /\ Failed("UNSUPPORTED_OPERATION")
  /\ NoPatternMatches
  /\ description = <<"g","i","b","b","e","r","i","s","h"," ","w","i","t","h"," ","n","o"," ","s","t","r","u","c","t","u","r","e">>  \* "gibberish with no structure"
  /\ contract = ReferenceContract

NoTableFor(term) ==
  \A k \in 1..Len(contract.tables) :
    ~ includes(toLowerCase(contract.tables[k].businessName), toLowerCase(term))

\* C7: for every supported sentence shape, a description whose target business
\* name resolves to no table of the contract raises InvalidInput and returns no
\* query.
UnknownEntityIsInvalidInput ==
  (Done /\ ParsedIntent /\ NoTableFor(Parsed.target)) =>
    /\ Failed("INVALID_INPUT")
    /\ outcome.sql_query = <<>>

UnknownEntityIsInvalidInputWitness ==
  /\ Failed("INVALID_INPUT")
  /\ contract = ReferenceContract
  /\ description = WhatIsTheName(<<"w","i","d","g","e","t">>, <<"4">>, <<"?">>)  \* "widget" "4" "?"

Quoted(term) == <<"'">> \o term \o <<"'">>

\* the requested columns and filter columns, in the order the engine resolves them
RequestedColumns ==
  SelectSeq(Parsed.columns, LAMBDA c : c # <<"*">>)
    \o [k \in 1..Len(Parsed.filters) |-> Parsed.filters[k].column]
UnresolvedColumns ==
  {k \in 1..Len(RequestedColumns) :
     findColumnByBusinessName(TargetTable.table, RequestedColumns[k]) = NULL}

\* C8: an unresolved output or filter column raises InvalidInput whose message
\* names the unresolved business term and the table searched; an unresolved
\* table raises InvalidInput whose message names the table term.
InvalidInputNamesTerm ==
  (Done /\ ParsedIntent) =>
    /\ NoTableFor(Parsed.target) =>
         /\ Failed("INVALID_INPUT")
         /\ includes(outcome.message, Quoted(Parsed.target))
    /\ (~ NoTableFor(Parsed.target) /\ UnresolvedColumns # {}) =>
         /\ Failed("INVALID_INPUT")
         /\ includes(outcome.message,
                     <<"c","o","l","u","m","n"," ","m","a","t","c","h","i","n","g"," ">> \o Quoted(RequestedColumns[SetMin(UnresolvedColumns)]))  \* "column matching "
         /\ includes(outcome.message, <<"i","n"," ","t","a","b","l","e"," ">> \o Quoted(TargetTable.physicalName))  \* "in table "

InvalidInputNamesTermWitness ==
  /\ Failed("INVALID_INPUT")
  /\ contract = ReferenceContract
  /\ description = ShowMe(<<"F","o","o">>, <<"c","u","s","t","o","m","e","r">>, <<"4">>)  \* "Foo" "customer" "4"
  /\ outcome.message = <<"C","o","u","l","d"," ","n","o","t"," ","f","i","n","d"," ","a"," ","c","o","l","u","m","n"," ","m","a","t","c","h","i","n","g"," ","'","F","o","o","'"," ","i","n"," ","t","a","b","l","e"," ","'","c","u","s","t","_","m","s","t","'",".">>  \* "Could not find a column matching 'Foo' in table 'cust_mst'."

WhichAnyEntityQuery ==
  Done =>
    \A e \in PluralEntities, v \in StockValues, x \in {<<"?">>, <<>>} :
      description = WhichEntityAre(e, v, x) =>
        LET T == findTableByBusinessName(contract, e)
            I == findColumnByBusinessName(T.table, <<"i","d">>)
            St == findColumnByBusinessName(T.table, <<"s","t","a","t","u","s">>)  \* "status"
        IN  (T # NULL /\ I # NULL /\ St # NULL) =>
              /\ outcome.kind = "ok"
              /\ outcome.sql_query =
                   <<"S","E","L","E","C","T"," ">> \o I.physicalName \o <<" ","F","R","O","M"," ">> \o T.physicalName  \* "SELECT " " FROM "
                     \o <<" ","W","H","E","R","E"," ">> \o St.physicalName \o <<" ","="," ","?",";">>  \* " WHERE " " = ?;"
              /\ Len(outcome.params) = 1

\* C11 (amended): the rule is tied to the words "which sales orders are": the
\* same question about another entity fails with UnsupportedOperation, also
\* when the contract has that table with id and status columns, and a query
\* answering "which sales orders are <value>" is always on the table resolved
\* from "sales orders".
OnlySalesOrdersAreAsked ==
  Done =>
    /\ \A e \in PluralEntities, v \in StockValues, x \in Endings :
         description = WhichEntityAre(e, v, x) =>
           /\ Failed("UNSUPPORTED_OPERATION")
           /\ outcome.message = UnsupportedMessage
           /\ outcome.sql_query = <<>>
    /\ \A v \in StatusValues, x \in Endings :
         (description = WhichAre(v, x) /\ Succeeded) =>
           LET T == findTableByBusinessName(contract, <<"s","a","l","e","s"," ","o","r","d","e","r","s">>)  \* "sales orders"
           IN  /\ T # NULL
               /\ includes(outcome.sql_query, <<" ","F","R","O","M"," ">> \o T.physicalName \o <<" ","W","H","E","R","E"," ">>)  \* " FROM " " WHERE "

OnlySalesOrdersAreAskedWitness ==
  /\ Done
  /\ contract = LegacyContract
  /\ description = WhichEntityAre(<<"P","r","o","d","u","c","t"," ","C","a","t","a","l","o","g">>, <<"a","c","t","i","v","e">>, <<"?">>)  \* "Product Catalog" "active" "?"
  /\ LET T == findTableByBusinessName(contract, <<"P","r","o","d","u","c","t"," ","C","a","t","a","l","o","g">>)  \* "Product Catalog"
     IN  /\ T # NULL
         /\ findColumnByBusinessName(T.table, <<"i","d">>) # NULL
         /\ findColumnByBusinessName(T.table, <<"s","t","a","t","u","s">>) # NULL  \* "status"
  /\ Failed("UNSUPPORTED_OPERATION")

\* C12: "list all <entity> in the '<qualifier>'" whose table resolves selects
\* every physical column name of that table, comma-joined in the contract's
\* column order, with no WHERE clause and no parameters.
ListAllQuery ==
  Done =>
    \A e \in EntityTerms, q \in Qualifiers, x \in Quotes :
      (description = ListAllIn(e, q, x) /\ ParsedIntent /\ TargetTable # NULL) =>
        LET T == TargetTable
            names == [k \in 1..Len(T.table.columns) |-> T.table.columns[k].name]
        IN  /\ outcome.kind = "ok"
            /\ outcome.sql_query =
                 <<"S","E","L","E","C","T"," ">> \o join(names, <<","," ">>) \o <<" ","F","R","O","M"," ">> \o T.physicalName \o <<";">>  \* "SELECT " ", " " FROM " ";"
            /\ ~ includes(outcome.sql_query, <<"W","H","E","R","E">>)  \* "WHERE"
            /\ outcome.params = <<>>

ListAllQueryWitness ==
  /\ Done
  /\ contract = LegacyContract
  /\ description = ListAllIn(<<"p","r","o","d","u","c","t">>, <<"P","r","o","d","u","c","t"," ","C","a","t","a","l","o","g">>, "'")  \* "product" "Product Catalog"
  /\ outcome = Result(<<"S","E","L","E","C","T"," ","s","k","u","_","i","d",","," ","d","e","s","c","r",","," ","i","n","v","_","s","t","a","t","u","s",","," ","b","r","a","n","d"," ","F","R","O","M"," ","i","n","v",";">>, <<>>)  \* "SELECT sku_id, descr, inv_status, brand FROM inv;"

\* C13 as stated: the table a list-all query reads is the one resolved from
\* the <entity> term of the description.
ListAllFromEntity ==
  Done =>
    \A e \in EntityTerms, q \in Qualifiers, x \in Quotes :
      (description = ListAllIn(e, q, x) /\ Succeeded) =>
        LET T == findTableByBusinessName(contract, e)
        IN  /\ T # NULL
            /\ endsWith(outcome.sql_query, <<" ","F","R","O","M"," ">> \o T.physicalName \o <<";">>)  \* " FROM " ";"

\* C13 (amended): the target of a list-all intent is the quoted <qualifier>:
\* the query reads the table resolved from the qualifier, whatever the
\* <entity> term is, and the call fails with InvalidInput naming the
\* qualifier when no table resolves from it.
ListAllFromQualifier ==
  Done =>
    \A e \in EntityTerms, q \in Qualifiers, x \in Quotes :
      description = ListAllIn(e, q, x) =>
        LET T == findTableByBusinessName(contract, q)
        IN  IF T = NULL
              THEN /\ Failed("INVALID_INPUT")
                   /\ outcome.message = <<"C","o","u","l","d"," ","n","o","t"," ","f","i","n","d"," ","a"," ","t","a","b","l","e"," ","m","a","t","c","h","i","n","g"," ","'">> \o q \o <<"'",".">>  \* "Could not find a table matching '" "'."
              ELSE /\ Succeeded
                   /\ endsWith(outcome.sql_query, <<" ","F","R","O","M"," ">> \o T.physicalName \o <<";">>)  \* " FROM " ";"

\* the entity term names one table and the qualifier another
ListAllFromQualifierWitness ==
  /\ Done
  /\ contract = ReferenceContract
  /\ description = ListAllIn(<<"p","r","o","d","u","c","t">>, <<"C","u","s","t","o","m","e","r">>, "'")  \* "product" "Customer"
  /\ findTableByBusinessName(contract, <<"p","r","o","d","u","c","t">>).physicalName = <<"p","r","o","d">>  \* "product" "prod"
  /\ outcome = Result(<<"S","E","L","E","C","T"," ","c","_","i","d",","," ","c","_","n","a","m","e"," ","F","R","O","M"," ","c","u","s","t","_","m","s","t",";">>, <<>>)  \* "SELECT c_id, c_name FROM cust_mst;"

FullMatch(k, s) ==
  LET n == Len(s)
      Digits(a, b) == a <= b /\ \A i \in a..b : s[i] \in DigitSet
  IN  CASE k = 1 ->
             /\ LitAt(s, 1, ShowMeThe)
             /\ \E i \in 1..n, j \in 1..n :
                  /\ i >= 1 + Len(ShowMeThe) /\ LitAt(s, i, ForThe)
                  /\ j >= i + Len(ForThe) /\ LitAt(s, j, WithId)
                  /\ DotRun(s, 1 + Len(ShowMeThe), i - 1)
                  /\ DotRun(s, i + Len(ForThe), j - 1)
                  /\ Digits(j + Len(WithId), n)
        [] k = 2 ->
             /\ LitAt(s, 1, WhichSalesOrdersAre)
             /\ DotRun(s, 1 + Len(WhichSalesOrdersAre), n)
        [] k = 3 ->
             /\ LitAt(s, 1, ListAll)
             /\ \E i \in 1..n :
                  /\ i >= 1 + Len(ListAll) /\ LitAt(s, i, InThe)
                  /\ i + Len(InThe) < n
                  /\ s[i + Len(InThe)] \in Quotes /\ s[n] \in Quotes
                  /\ DotRun(s, 1 + Len(ListAll), i - 1)
                  /\ DotRun(s, i + Len(InThe) + 1, n - 1)
        [] k = 4 ->
             /\ LitAt(s, 1, WhatIsTheNameOfThe)
             /\ \E i \in 1..n :
                  /\ i >= 1 + Len(WhatIsTheNameOfThe) /\ LitAt(s, i, WithId)
                  /\ DotRun(s, 1 + Len(WhatIsTheNameOfThe), i - 1)
                  /\ DigitsOptQEnd(s, i + Len(WithId)) # 0
        [] k = 5 ->
             LitAt(s, 1, QuantityQuestion) /\ DigitsOptQEnd(s, 1 + Len(QuantityQuestion)) # 0
        [] k = 6 ->
             LitAt(s, 1, CustomerQuestion) /\ DigitsOptQEnd(s, 1 + Len(CustomerQuestion)) # 0

\* what the call returns when rule k is the one selected
OutcomeOfRule(k) ==
  LET r == supportedPatterns(description)[k]
  IN  IF r.kind = "error" THEN r ELSE QueryForIntent(contract, r)

\* C15 as stated: a rule is selected only when its pattern matches the full
\* description, and the first such rule decides the outcome.
FirstFullMatchDecides ==
  Done =>
    LET full == {k \in 1..6 : FullMatch(k, toLowerCase(description))}
    IN  IF full = {} THEN outcome = UnsupportedDescription
        ELSE outcome = OutcomeOfRule(SetMin(full))

\* C15 (amended): a rule is selected when its pattern is found anywhere in the
\* description, case-insensitively (rules 2, 4, 5 and 6 must reach the end of
\* the description; none has to start at its beginning, rules 1 and 3 may be
\* followed by any text); the first such rule in source order decides the
\* outcome, also when a later rule, terminal or not, matches too, and a
\* sentence padded with other words is answered like the sentence alone.
FirstMatchDecides ==
  Done =>
    /\ LET found == {k \in 1..6 : supportedPatterns(description)[k] # NULL}
       IN  IF found = {} THEN outcome = UnsupportedDescription
           ELSE outcome = OutcomeOfRule(SetMin(found))
    /\ \A c \in ColumnTerms, e \in EntityTerms, n \in IdDigits :
         description = Please(ShowMeLower(c, e, n)) =>
           outcome = buildQueryFromDescriptionLogic(contract, ShowMeLower(c, e, n))

\* rule 1 is found before the full stop and the terminal rule 5 after it: no
\* rule matches the whole description, and rule 1 decides
FirstMatchDecidesWitness ==
  /\ Done
  /\ contract = ReferenceContract
  /\ description = <<"S","h","o","w"," ","m","e"," ","t","h","e"," ","C","u","s","t","o","m","e","r"," ","N","a","m","e"," ","f","o","r"," ","t","h","e"," ","c","u","s","t","o","m","e","r"," ","w","i","t","h"," ","I","D"," ","4","."," ","W","h","a","t"," ","w","a","s"," ","t","h","e"," ","q","u","a","n","t","i","t","y"," ","o","f"," ","e","a","c","h"," ","p","r","o","d","u","c","t"," ","s","o","l","d"," ","i","n"," ","o","r","d","e","r"," ","n","u","m","b","e","r"," ","1","0","0","1","?">>  \* "Show me the Customer Name for the customer with ID 4. What was the quantity of each product sold in order number 1001?"
  /\ supportedPatterns(description)[1] # NULL
  /\ supportedPatterns(description)[5] # NULL
  /\ \A k \in 1..6 : ~ FullMatch(k, toLowerCase(description))
  /\ outcome = Result(<<"S","E","L","E","C","T"," ","c","_","n","a","m","e"," ","F","R","O","M"," ","c","u","s","t","_","m","s","t"," ","W","H","E","R","E"," ","c","_","i","d"," ","="," ","?",";">>, << StringParam(<<"4">>) >>)  \* "SELECT c_name FROM cust_mst WHERE c_id = ?;" "4"

\* C16: a call ends as a complete {sql_query, params} result, as an
\* UnsupportedOperation error or as an InvalidInput error; an error carries no
\* query and no parameter, and a failed table, output-column or filter-column
\* resolution always ends the call as an error.
ThreeOutcomes ==
  Done =>
    /\ \/ /\ outcome.kind = "ok"
          /\ LitAt(outcome.sql_query, 1, <<"S","E","L","E","C","T"," ">>)  \* "SELECT "
          /\ endsWith(outcome.sql_query, <<";">>)
          /\ ParsedIntent
          /\ Len(outcome.params) = Len(Parsed.filters)
       \/ /\ outcome.kind = "error"
          /\ outcome.code \in {"UNSUPPORTED_OPERATION", "INVALID_INPUT"}
          /\ outcome.sql_query = <<>>
          /\ outcome.params = <<>>
    /\ (ParsedIntent /\ (NoTableFor(Parsed.target) \/ UnresolvedColumns # {})) =>
         /\ Failed("INVALID_INPUT")
         /\ outcome.sql_query = <<>>
         /\ outcome.params = <<>>

\* the output column resolves and the filter column does not: what was built
\* for the SELECT list is dropped
ThreeOutcomesWitness ==
  /\ Done
  /\ contract = SparseContract
  /\ description = WhatIsTheName(<<"p","r","o","d","u","c","t">>, <<"4">>, <<"?">>)  \* "product" "4" "?"
  /\ findColumnByBusinessName(TargetTable.table, <<"n","a","m","e">>) # NULL  \* "name"
  /\ findColumnByBusinessName(TargetTable.table, <<"i","d">>) = NULL
  /\ Failed("INVALID_INPUT")
  /\ outcome.sql_query = <<>>

Containing(entries, term) ==
  {k \in 1..Len(entries) : includes(toLowerCase(entries[k].businessName), toLowerCase(term))}

\* the requested output columns resolved by business name alone
GenericColumns ==
  {k \in 1..Len(Parsed.columns) :
     /\ Parsed.columns[k] # <<"*">>
     /\ toLowerCase(Parsed.columns[k]) \notin {<<"i","d">>, <<"s","t","a","t","u","s">>}}  \* "id" "status"

\* C20: the table read is the first table, in the contract's order, whose
\* businessName contains the target case-insensitively, and an output column
\* resolved by business name is the first such column of that table; the call
\* reports not-found only when no entry matches.
FirstMatchResolution ==
  (Done /\ ParsedIntent) =>
    LET tables == contract.tables
        tHits == Containing(tables, Parsed.target)
    IN  IF tHits = {}
          THEN /\ Failed("INVALID_INPUT")
               /\ outcome.message =
                    <<"C","o","u","l","d"," ","n","o","t"," ","f","i","n","d"," ","a"," ","t","a","b","l","e"," ","m","a","t","c","h","i","n","g"," ","'">> \o Parsed.target \o <<"'",".">>  \* "Could not find a table matching '" "'."
          ELSE LET T == tables[SetMin(tHits)]
               IN  /\ outcome.kind = "ok" =>
                        \/ includes(outcome.sql_query, <<" ","F","R","O","M"," ">> \o T.name \o <<";">>)  \* " FROM " ";"
                        \/ includes(outcome.sql_query, <<" ","F","R","O","M"," ">> \o T.name \o <<" ","W","H","E","R","E"," ">>)  \* " FROM " " WHERE "
                   /\ outcome.kind = "error" =>
                        endsWith(outcome.message, <<" ","i","n"," ","t","a","b","l","e"," ","'">> \o T.name \o <<"'",".">>)  \* " in table '" "'."
                   /\ \A k \in GenericColumns :
                        LET cHits == Containing(T.columns, Parsed.columns[k])
                        IN  IF cHits = {}
                              THEN /\ Failed("INVALID_INPUT")
                                   /\ outcome.message =
                                        <<"C","o","u","l","d"," ","n","o","t"," ","f","i","n","d"," ","a"," ","c","o","l","u","m","n"," ","m","a","t","c","h","i","n","g"," ","'">>  \* "Could not find a column matching '"
                                          \o Parsed.columns[k] \o <<"'"," ","i","n"," ","t","a","b","l","e"," ","'">>  \* "' in table '"
                                          \o T.name \o <<"'",".">>
                              ELSE outcome.kind = "ok" =>
                                     LitAt(outcome.sql_query, 1,
                                           <<"S","E","L","E","C","T"," ">> \o T.columns[SetMin(cHits)].name  \* "SELECT "
                                             \o <<" ","F","R","O","M"," ">>)  \* " FROM "

\* two tables contain "product" and two columns of the first contain "name"
FirstMatchResolutionWitness ==
  /\ Done
  /\ contract = LegacyContract
  /\ description = WhatIsTheName(<<"p","r","o","d","u","c","t">>, <<"4">>, <<"?">>)  \* "product" "4" "?"
  /\ Cardinality(Containing(contract.tables, <<"p","r","o","d","u","c","t">>)) = 2  \* "product"
  /\ Cardinality(Containing(contract.tables[2].columns, <<"n","a","m","e">>)) = 2  \* "name"
  /\ outcome = Result(<<"S","E","L","E","C","T"," ","d","e","s","c","r"," ","F","R","O","M"," ","i","n","v"," ","W","H","E","R","E"," ","s","k","u","_","i","d"," ","="," ","?",";">>, << StringParam(<<"4">>) >>)  \* "SELECT descr FROM inv WHERE sku_id = ?;" "4"

ListedIds(registry) == {listJobs(registry)[k].id : k \in 1..Len(listJobs(registry))}

\* C19: no two registered jobs share an id; schedule(id, ...) with a registered
\* id throws "Job with ID '<id>' already exists." and leaves every job and
\* listJobs() as they were; remove(id) of a registered id takes the id off the
\* list, and a removed id that is scheduled again with a valid pattern is
\* registered anew.
UniqueJobIds ==
  /\ [](\A k, m \in 1..Len(jobs) : jobs[k].id = jobs[m].id => k = m)
  /\ [][/\ (lastCall'.op = "schedule" /\ lastCall'.id \in ListedIds(jobs)) =>
            /\ lastCall'.error = <<"J","o","b"," ","w","i","t","h"," ","I","D"," ","'">> \o lastCall'.id \o <<"'"," ","a","l","r","e","a","d","y"," ","e","x","i","s","t","s",".">>  \* "Job with ID '" "' already exists."
            /\ listJobs(jobs') = listJobs(jobs)
        /\ (lastCall'.op = "remove" /\ lastCall'.id \in ListedIds(jobs)) =>
            /\ lastCall'.error = <<>>
            /\ lastCall'.id \notin ListedIds(jobs')
            /\ ListedIds(jobs') = ListedIds(jobs) \ {lastCall'.id}
        /\ (/\ lastCall'.op = "schedule"
            /\ lastCall'.id \in removedIds \ ListedIds(jobs)
            /\ lastCall'.schedule \in {<<"0"," ","0"," ","*"," ","*"," ","*">>, <<"*","/","5"," ","*"," ","*"," ","*"," ","*">>}) =>  \* "0 0 * * *" "*/5 * * * *"
            /\ lastCall'.error = <<>>
            /\ Len(jobs') = Len(jobs) + 1
            /\ jobs'[Len(jobs')].id = lastCall'.id
            /\ jobs'[Len(jobs')].schedule = lastCall'.schedule
            /\ jobs'[Len(jobs')].description = lastCall'.description
       ]_vars

\* a second schedule() of a registered id has thrown, and the job, once removed
\* and scheduled again, still has the description of its own registration
UniqueJobIdsWitness ==
  /\ lastCall.op = "schedule"
  /\ lastCall.id = <<"d","u","p","l","i","c","a","t","e","-","j","o","b">>  \* "duplicate-job"
  /\ lastCall.description = <<"S","e","c","o","n","d"," ","j","o","b">>  \* "Second job"
  /\ lastCall.error = <<"J","o","b"," ","w","i","t","h"," ","I","D"," ","'","d","u","p","l","i","c","a","t","e","-","j","o","b","'"," ","a","l","r","e","a","d","y"," ","e","x","i","s","t","s",".">>  \* "Job with ID 'duplicate-job' already exists."
  /\ <<"d","u","p","l","i","c","a","t","e","-","j","o","b">> \in removedIds  \* "duplicate-job"
  /\ Len(jobs) = 2
  /\ jobs[2].id = <<"d","u","p","l","i","c","a","t","e","-","j","o","b">>  \* "duplicate-job"
  /\ jobs[2].description = <<"F","i","r","s","t"," ","j","o","b">>  \* "First job"

\* the columns of a table whose physical name passes the test of a logical field
PhysicalHits(columns, field) ==
  {k \in 1..Len(columns) :
     IF field = <<"i","d">>
       THEN columns[k].name = <<"i","d">> \/ endsWith(columns[k].name, <<"_","i","d">>)  \* "id" "_id"
       ELSE endsWith(columns[k].name, <<"_","s","t","a","t">>) \/ endsWith(columns[k].name, <<"_","s","t","a","t","u","s">>)}  \* "_stat" "_status"

\* the positions of parsed.columns, or of parsed.filters, that ask for a logical field
AskedAsOutput(field) ==
  {k \in 1..Len(Parsed.columns) : toLowerCase(Parsed.columns[k]) = field}
AskedAsFilter(field) ==
  {k \in 1..Len(Parsed.filters) : toLowerCase(Parsed.filters[k].column) = field}

\* C21: a requested id or status, in any letter case, is answered with the
\* first column of the table whose physical name is id or ends with _id (ends
\* with _stat or _status), when the table has one, also when the businessName
\* of an earlier column contains the word.
LogicalFieldsByPhysicalName ==
  (Done /\ ParsedIntent /\ TargetTable # NULL) =>
    \A field \in {<<"i","d">>, <<"s","t","a","t","u","s">>} :  \* "id" "status"
      LET columns == TargetTable.table.columns
          hits == PhysicalHits(columns, field)
      IN  hits # {} =>
            LET name == columns[SetMin(hits)].name
            IN  /\ outcome.kind = "ok" =>
                     /\ AskedAsOutput(field) # {} =>
                          LitAt(outcome.sql_query, 1, <<"S","E","L","E","C","T"," ">> \o name \o <<" ","F","R","O","M"," ">>)  \* "SELECT " " FROM "
                     /\ AskedAsFilter(field) # {} =>
                          endsWith(outcome.sql_query, <<" ","W","H","E","R","E"," ">> \o name \o <<" ","="," ","?",";">>)  \* " WHERE " " = ?;"
                /\ \A k \in AskedAsOutput(field) :
                     outcome.message # <<"C","o","u","l","d"," ","n","o","t"," ","f","i","n","d"," ","a"," ","c","o","l","u","m","n"," ","m","a","t","c","h","i","n","g"," ","'">>  \* "Could not find a column matching '"
                                         \o Parsed.columns[k] \o <<"'"," ","i","n"," ","t","a","b","l","e"," ","'">>  \* "' in table '"
                                         \o TargetTable.physicalName \o <<"'",".">>

\* "ID" is asked of a table whose first column is named "Order Identifier"
LogicalFieldsByPhysicalNameWitness ==
  /\ Done
  /\ contract = LegacyContract
  /\ description = ShowMe(<<"I","D">>, <<"s","a","l","e","s"," ","o","r","d","e","r","s">>, <<"4">>)  \* "ID" "sales orders" "4"
  /\ includes(toLowerCase(TargetTable.table.columns[1].businessName), <<"i","d">>)
  /\ outcome = Result(<<"S","E","L","E","C","T"," ","l","o","g","_","i","d"," ","F","R","O","M"," ","s","o","_","l","o","g"," ","W","H","E","R","E"," ","l","o","g","_","i","d"," ","="," ","?",";">>, << StringParam(<<"4">>) >>)  \* "SELECT log_id FROM so_log WHERE log_id = ?;" "4"

\* the codes of the occurrences, in the rules of a column, whose label is value
\* in some letter case
CodesFor(column, value) ==
  {parseInt(m.code) : m \in {m \in Range(AllRuleMatches(column.businessRules)) :
                               toLowerCase(m.label) = toLowerCase(value)}}

\* every requested column and filter column of the current intent resolves
AllResolved == ParsedIntent /\ TargetTable # NULL /\ UnresolvedColumns = {}

\* C22: mapping a filter value never fails a call; the parameter is the raw
\* value when the filter column has no business rule or no occurrence of
\* <integer>: '<label>' whose label is the value in some letter case, and the
\* integer of such an occurrence, as a number, otherwise.
ValueMappingBestEffort ==
  (Done /\ AllResolved) =>
    /\ outcome.kind = "ok"
    /\ Len(outcome.params) = Len(Parsed.filters)
    /\ \A k \in 1..Len(Parsed.filters) :
         LET f == Parsed.filters[k]
             col == findColumnByBusinessName(TargetTable.table, f.column).column
         IN  IF col.businessRules = <<>> \/ CodesFor(col, f.value) = {}
               THEN outcome.params[k] = StringParam(f.value)
               ELSE outcome.params[k] \in {NumberParam(code) : code \in CodesFor(col, f.value)}

\* the label of the rule is 'Cancelled', the value asked for is cancelled
ValueMappingBestEffortWitness ==
  /\ Done
  /\ contract = LegacyContract
  /\ description = WhichAre(<<"c","a","n","c","e","l","l","e","d">>, <<"?">>)  \* "cancelled" "?"
  /\ outcome = Result(<<"S","E","L","E","C","T"," ","l","o","g","_","i","d"," ","F","R","O","M"," ","s","o","_","l","o","g"," ","W","H","E","R","E"," ","s","t","a","t","e","_","s","t","a","t","u","s"," ","="," ","?",";">>, << NumberParam(7) >>)  \* "SELECT log_id FROM so_log WHERE state_status = ?;"

\* the occurrences of one rule string, left to right, whose label is value
LabelHits(rule, value) ==
  {i \in 1..Len(RuleExec(rule, 1)) :
     toLowerCase(RuleExec(rule, 1)[i].label) = toLowerCase(value)}

\* C23: when several occurrences in the rules of the filter column carry the
\* value as label, the parameter is the integer of the first one: the first
\* rule of the list that has such an occurrence, and in it the leftmost,
\* whichever place it has among the occurrences of that rule.
ScanFirstMatch ==
  (Done /\ AllResolved) =>
    \A k \in 1..Len(Parsed.filters) :
      LET f == Parsed.filters[k]
          rules == findColumnByBusinessName(TargetTable.table, f.column).column.businessRules
          withHit == {r \in 1..Len(rules) : LabelHits(rules[r], f.value) # {}}
      IN  withHit # {} =>
            LET rule == rules[SetMin(withHit)]
                occurrence == RuleExec(rule, 1)[SetMin(LabelHits(rule, f.value))]
            IN  /\ Len(outcome.params) >= k
                /\ outcome.params[k] = NumberParam(parseInt(occurrence.code))

\* 'open' is the third and the fourth label of the third rule
ScanFirstMatchWitness ==
  /\ Done
  /\ contract = LegacyContract
  /\ description = WhichAre(<<"o","p","e","n">>, <<"?">>)  \* "open" "?"
  /\ Cardinality(LabelHits(contract.tables[1].columns[3].businessRules[3], <<"o","p","e","n">>)) = 2  \* "open"
  /\ outcome = Result(<<"S","E","L","E","C","T"," ","l","o","g","_","i","d"," ","F","R","O","M"," ","s","o","_","l","o","g"," ","W","H","E","R","E"," ","s","t","a","t","e","_","s","t","a","t","u","s"," ","="," ","?",";">>, << NumberParam(12) >>)  \* "SELECT log_id FROM so_log WHERE state_status = ?;"

\* 'cancelled' is a label of the first rule and of the third
ScanFirstMatchAcrossRules ==
  /\ Done
  /\ contract = LegacyContract
  /\ description = WhichAre(<<"c","a","n","c","e","l","l","e","d">>, <<"?">>)  \* "cancelled" "?"
  /\ outcome.params = << NumberParam(7) >>

\* C24: a returned sql_query is "SELECT <columns> FROM <table>", then
\* " WHERE <clauses>" exactly when the intent has a filter, then one ";" that
\* is its last character and its only one.
StatementShape ==
  Succeeded =>
    LET q == outcome.sql_query
        froms == {p \in 1..Len(q) : LitAt(q, p, <<" ","F","R","O","M"," ">>)}  \* " FROM "
        wheres == {p \in 1..Len(q) : LitAt(q, p, <<" ","W","H","E","R","E"," ">>)}  \* " WHERE "
        tableEnd == SetMin(froms) + Len(<<" ","F","R","O","M"," ">>) + Len(TargetTable.physicalName)  \* " FROM "
    IN  /\ LitAt(q, 1, <<"S","E","L","E","C","T"," ">>)  \* "SELECT "
        /\ Cardinality(froms) = 1
        /\ LitAt(q, SetMin(froms) + Len(<<" ","F","R","O","M"," ">>), TargetTable.physicalName)  \* " FROM "
        /\ Positions(q, ";") = {Len(q)}
        /\ IF Len(Parsed.filters) = 0
             THEN wheres = {} /\ tableEnd = Len(q)
             ELSE wheres = {tableEnd} /\ tableEnd + Len(<<" ","W","H","E","R","E"," ">>) < Len(q)  \* " WHERE "

\* one query with a filter
StatementShapeWitness ==
  /\ Succeeded
  /\ contract = ReferenceContract
  /\ description = WhichAre(<<"s","h","i","p","p","e","d">>, <<>>)  \* "shipped"
  /\ Len(Parsed.filters) = 1
  /\ outcome.sql_query = <<"S","E","L","E","C","T"," ","o","r","d","_","i","d"," ","F","R","O","M"," ","s","o","_","h","d","r"," ","W","H","E","R","E"," ","o","r","d","_","s","t","a","t"," ","="," ","?",";">>  \* "SELECT ord_id FROM so_hdr WHERE ord_stat = ?;"

\* and one without
StatementShapeNoFilter ==
  /\ Succeeded
  /\ contract = ReferenceContract
  /\ description = ListAllIn(<<"c","u","s","t","o","m","e","r">>, <<"C","u","s","t","o","m","e","r">>, "'")  \* "customer" "Customer"
  /\ Len(Parsed.filters) = 0
  /\ outcome.sql_query = <<"S","E","L","E","C","T"," ","c","_","i","d",","," ","c","_","n","a","m","e"," ","F","R","O","M"," ","c","u","s","t","_","m","s","t",";">>  \* "SELECT c_id, c_name FROM cust_mst;"

\* the clause and the parameter the k-th filter of the assembled intent calls for
FilterColumn(k) ==
  findColumnByBusinessName(findTableByBusinessName(contract, intent.target).table,
                           intent.filters[k].column)
ExpectedClause(k) ==
  FilterColumn(k).physicalName \o <<" ">> \o intent.filters[k].operator \o <<" ","?">>
ExpectedParams(k) ==
  IF CodesFor(FilterColumn(k).column, intent.filters[k].value) = {}
    THEN {StringParam(intent.filters[k].value)}
    ELSE {NumberParam(code) : code \in CodesFor(FilterColumn(k).column, intent.filters[k].value)}

\* C25: for an intent with filters f1..fn the WHERE clause is the n clauses
\* "<physicalColumn_i> <operator_i> ?" in filter order joined with " AND ", and
\* params[i] is the mapped value of the i-th filter.
FilterOrderPreserved ==
  (Done /\ outcome.kind = "ok") =>
    LET n == Len(intent.filters)
        clauses == [k \in 1..n |-> ExpectedClause(k)]
    IN  /\ Len(outcome.params) = n
        /\ \A k \in 1..n : outcome.params[k] \in ExpectedParams(k)
        /\ n > 0 => endsWith(outcome.sql_query, <<" ","W","H","E","R","E"," ">> \o join(clauses, <<" ","A","N","D"," ">>) \o <<";">>)  \* " WHERE " " AND " ";"

FilterOrderPreservedWitness ==
  /\ Done
  /\ contract = ReferenceContract
  /\ intent = Intent(<<"s","a","l","e","s"," ","o","r","d","e","r","s">>, << <<"i","d">> >>,  \* "sales orders" "id"
                     << Filter(<<"s","t","a","t","u","s">>, <<"c","a","n","c","e","l","l","e","d">>), Filter(<<"i","d">>, <<"4">>) >>)  \* "status" "cancelled" "id" "4"
  /\ outcome = Result(<<"S","E","L","E","C","T"," ","o","r","d","_","i","d"," ","F","R","O","M"," ","s","o","_","h","d","r"," ","W","H","E","R","E"," ","o","r","d","_","s","t","a","t"," ","="," ","?"," ","A","N","D"," ","o","r","d","_","i","d"," ","="," ","?",";">>,  \* "SELECT ord_id FROM so_hdr WHERE ord_stat = ? AND ord_id = ?;"
                      << NumberParam(5), StringParam(<<"4">>) >>)

\* the requests for columns, outputs first, each with the physical column the
\* statement must show for it
OutputRequests == SelectSeq(Parsed.columns, LAMBDA c : c # <<"*">>)

\* C26: when id (or status) is requested and no physical name of the table
\* passes the special test, the request resolves to the first column whose
\* businessName contains "id" ("status"), and is not-found only when no
\* businessName contains it.
SpecialCaseFallsThrough ==
  (Done /\ ParsedIntent /\ TargetTable # NULL) =>
    \A field \in {<<"i","d">>, <<"s","t","a","t","u","s">>} :  \* "id" "status"
      LET columns == TargetTable.table.columns
          generic == Containing(columns, field)
      IN  PhysicalHits(columns, field) = {} =>
            /\ \A k \in AskedAsOutput(field) \cup AskedAsFilter(field) :
                 generic = {} =>
                   /\ Failed("INVALID_INPUT")
                   /\ k \in AskedAsFilter(field) /\ UnresolvedColumns = {Len(RequestedColumns)}
                        => outcome.message = ColumnNotFound(Parsed.filters[k].column, TargetTable).message
            /\ (generic # {} /\ outcome.kind = "ok") =>
                 LET name == columns[SetMin(generic)].name
                 IN  /\ AskedAsOutput(field) # {} =>
                          LitAt(outcome.sql_query, 1, <<"S","E","L","E","C","T"," ">> \o name \o <<" ","F","R","O","M"," ">>)  \* "SELECT " " FROM "
                     /\ AskedAsFilter(field) # {} =>
                          endsWith(outcome.sql_query, <<" ","W","H","E","R","E"," ">> \o name \o <<" ","="," ","?",";">>)  \* " WHERE " " = ?;"
            /\ (generic # {} /\ outcome.kind = "error") =>
                 \E k \in UnresolvedColumns :
                   toLowerCase(RequestedColumns[k]) # field

\* "Width" is the first business name of the product table that contains "id"
SpecialCaseFallsThroughWitness ==
  /\ Succeeded
  /\ contract = PlainContract
  /\ description = WhatIsTheName(<<"p","r","o","d","u","c","t">>, <<"4">>, <<"?">>)  \* "product" "4" "?"
  /\ PhysicalHits(TargetTable.table.columns, <<"i","d">>) = {}
  /\ outcome.sql_query = <<"S","E","L","E","C","T"," ","t","i","t","l","e"," ","F","R","O","M"," ","p","r","o","d","u","c","t"," ","W","H","E","R","E"," ","w","i","d","t","h"," ","="," ","?",";">>  \* "SELECT title FROM product WHERE width = ?;"

\* nothing in the customers table is an id by either test
SpecialCaseNotFoundWitness ==
  /\ Failed("INVALID_INPUT")
  /\ contract = PlainContract
  /\ description = ShowMe(<<"C","u","s","t","o","m","e","r"," ","N","a","m","e">>, <<"c","u","s","t","o","m","e","r">>, <<"4">>)  \* "Customer Name" "customer" "4"
  /\ outcome.message = <<"C","o","u","l","d"," ","n","o","t"," ","f","i","n","d"," ","a"," ","c","o","l","u","m","n"," ","m","a","t","c","h","i","n","g"," ","'","i","d","'"," ","i","n"," ","t","a","b","l","e"," ","'","c","u","s","t","o","m","e","r","s","'",".">>  \* "Could not find a column matching 'id' in table 'customers'."

\* the requested output columns, and the filters, the target table cannot answer
UnresolvedOutputs ==
  {k \in 1..Len(Parsed.columns) :
     /\ Parsed.columns[k] # <<"*">>
     /\ findColumnByBusinessName(TargetTable.table, Parsed.columns[k]) = NULL}
UnresolvedFilters ==
  {k \in 1..Len(Parsed.filters) :
     findColumnByBusinessName(TargetTable.table, Parsed.filters[k].column) = NULL}

\* C27: the first failure in a fixed order decides the error: a sentence no
\* rule accepts, or one of the unimplemented shapes, is UnsupportedOperation
\* whatever the contract; then an unresolved table is InvalidInput naming the
\* table term; then an unresolved output column is reported before an unresolved
\* filter column.
FailureOrder ==
  Done =>
    /\ ~ ParsedIntent =>
         /\ Failed("UNSUPPORTED_OPERATION")
         /\ outcome.message = UnsupportedMessage
    /\ (ParsedIntent /\ TargetTable = NULL) =>
         /\ Failed("INVALID_INPUT")
         /\ outcome.message = TableNotFound(Parsed.target).message
    /\ (ParsedIntent /\ TargetTable # NULL /\ UnresolvedOutputs # {}) =>
         /\ Failed("INVALID_INPUT")
         /\ outcome.message =
              ColumnNotFound(Parsed.columns[SetMin(UnresolvedOutputs)], TargetTable).message
    /\ (ParsedIntent /\ TargetTable # NULL /\ UnresolvedOutputs = {} /\ UnresolvedFilters # {}) =>
         /\ Failed("INVALID_INPUT")
         /\ outcome.message =
              ColumnNotFound(Parsed.filters[SetMin(UnresolvedFilters)].column, TargetTable).message

\* neither "Foo" nor id is a column of customers: the output column is named
FailureOrderWitness ==
  /\ Done
  /\ contract = PlainContract
  /\ description = ShowMe(<<"F","o","o">>, <<"c","u","s","t","o","m","e","r">>, <<"4">>)  \* "Foo" "customer" "4"
  /\ UnresolvedOutputs # {}
  /\ UnresolvedFilters # {}
  /\ outcome.message = <<"C","o","u","l","d"," ","n","o","t"," ","f","i","n","d"," ","a"," ","c","o","l","u","m","n"," ","m","a","t","c","h","i","n","g"," ","'","F","o","o","'"," ","i","n"," ","t","a","b","l","e"," ","'","c","u","s","t","o","m","e","r","s","'",".">>  \* "Could not find a column matching 'Foo' in table 'customers'."

\* an unimplemented shape against a contract with no table
FailureOrderEmptyContractWitness ==
  /\ Failed("UNSUPPORTED_OPERATION")
  /\ contract = EmptyContract
  /\ description = QuantityOf(<<"1","0","0","1">>, <<"?">>)  \* "1001" "?"

\* the table is reported though no table has the column either
FailureOrderTableFirstWitness ==
  /\ Failed("INVALID_INPUT")
  /\ contract = ReferenceContract
  /\ description = ShowMe(<<"F","o","o">>, <<"w","i","d","g","e","t">>, <<"4">>)  \* "Foo" "widget" "4"
  /\ outcome.message = <<"C","o","u","l","d"," ","n","o","t"," ","f","i","n","d"," ","a"," ","t","a","b","l","e"," ","m","a","t","c","h","i","n","g"," ","'","w","i","d","g","e","t","'",".">>  \* "Could not find a table matching 'widget'."

\* the parsed intent asks for a table or an output column with an empty name
EmptyTerm ==
  \/ Parsed.target = <<>>
  \/ \E k \in 1..Len(Parsed.columns) : Parsed.columns[k] = <<>>

\* C28: a description whose entity term or column term is empty or blank never
\* produces a query; the call fails with InvalidInput.
EmptyTermIsInvalidInput ==
  (Done /\ ParsedIntent /\ EmptyTerm) => Failed("INVALID_INPUT")

\* the tokens of a statement between SELECT and FROM
SelectList(sql) ==
  LET toks == Tokens(sql)
      fromAt == SetMin({k \in 1..Len(toks) : toks[k] = <<"F","R","O","M">>} \cup {Len(toks) + 1})  \* "FROM"
  IN  SubSeq(toks, 2, fromAt - 1)

\* C29: every successful sql_query names at least one physical column of the
\* resolved table between SELECT and FROM, also when the wildcard is expanded.
SelectListNonEmpty ==
  Succeeded =>
    /\ Len(SelectList(outcome.sql_query)) >= 1
    /\ \A k \in 1..Len(SelectList(outcome.sql_query)) :
         SelectList(outcome.sql_query)[k] \in ColumnNames(TargetTable.physicalName)

InFlight(id) == {k \in 1..Len(executions) : executions[k].id = id}

\* C30: at no time are two executions of the task function of one job id in
\* progress, whatever the interleaving of schedule, start, stop, remove and
\* ticks, also when the id is removed and scheduled again during an execution.
OneExecutionPerJobId ==
  \A id \in JobIds : Cardinality(InFlight(id)) <= 1

====
